---- MODULE Spec2Model ----
(***************************************************************************)
(* Mobile-Agent-v3 A2A server: the per-task control loop                   *)
(* (MobileAgentTaskExecutor._execute_task_logic), the reply rendezvous     *)
(* (ACTION_REPLY_FUTURES of mobile_agent_a2a.py and of run_a2a_server.py), *)
(* the SSE stream generator of run_a2a_server.py and the scripted client   *)
(* doubles of a2a_mock.py.                                                 *)
(*                                                                         *)
(* Scheduling is asyncio's: one action is the code a coroutine runs        *)
(* between two suspension points.                                          *)
(***************************************************************************)
EXTENDS Integers, Sequences, FiniteSets, TLC

\* ------------------------------------------------------------------ bounds
\* max_step handed to the loop (25 by default in the source).
MaxStep == 2

\* Futures made per task id when the functions of run_a2a_server.py are
\* called on their own (HandlerSpec).
MaxFutures == 2

\* max_step of the test that runs a single task.
MaxStepSingle == MaxStep + 1

\* ------------------------------------------------------- program constants
\* run_a2a_server.py: TASK_COUNTER = 1000
TASK_COUNTER_INIT == 1000

\* Task identifiers in use: the first two ids the server hands out.  A test
\* harness that calls the loop directly picks its ids from the same set.
TaskIds == {TASK_COUNTER_INIT + 1, TASK_COUNTER_INIT + 2}

\* A missing dict key (dict.get falls back to its default) / Python None.
None == "None"

\* first screenshot of a task ("1.jpg")
InitialScreenshot == 1

\* a2a_mock.get_complex_client_script: 14 replies, reply i carries image i+1
ScriptLen == 14

\* ---------------------------------------------------- inference outputs
\* Parsed plan text, as the words it is made of.
PlanTexts == { <<"tap", "icon">>, <<"task", "Finished">> }

\* Text of the "### Action ###" section of the Executor's reply.
ActionStrs == {"not json", "42", "click", "answer text", "answer bare"}

\* Reflector outcomes: success and failure ("C" takes the same branches as
\* "B" everywhere in the loop).
Outcomes == {"A", "B"}

\* Kinds of reply a client may send: the expected one and another one.
ReplyTypes == {"action_reply", "error"}

\* How the tasks of a process are run:
\*   "server": run_a2a_server.py; execute_task_a2a_mode, started by the
\*             stream generator
\*   "sink":   a harness; A2AInterfaceReal whose queue an A2AEventSink reads
\*   "double": a test; the loop called with an A2AInterfaceBase test double
\*   "single": a test that runs one task with a test double and a larger
\*             max_step (test_real_vlm_single_cycle, MAX_STEPS)
Modes == {"server", "sink", "double", "single"}

VARIABLES
    process,                       \* which program runs: the server, or a test harness (a Mode)
    TASK_COUNTER,                  \* run_a2a_server.TASK_COUNTER
    ACTIVE_TASK_CONTEXTS,          \* run_a2a_server.ACTIVE_TASK_CONTEXTS (its keys)
    ACTION_REPLY_FUTURES,          \* mobile_agent_a2a.ACTION_REPLY_FUTURES: task id -> future (0: no key)
    SERVER_ACTION_REPLY_FUTURES,   \* run_a2a_server.ACTION_REPLY_FUTURES: task id -> future (0: no key)
    futures,                       \* the asyncio.Future objects made for each task id
    loop,                          \* each task's coroutine: position and locals
    info_pool,                     \* each task's InfoPool
    event_queue,                   \* each task's pushed events, in order
    consumed,                      \* how many of them the queue's reader has taken
    vlm_calls,                     \* each task's predict_mm calls: role and images
    stream,                        \* each task's event_generator: state and what it yielded
    sink,                          \* each task's A2AEventSink
    http,                          \* the last answer of receive_action_reply or of tasks/cancel,
                                   \* or the future get_reply_future returned last (fut; 0: none)
    client_stub                    \* each task's A2AClientStub: action_counter, mock_script and
                                   \* the position and result of its wait_for_client_reply

vars == << process, TASK_COUNTER, ACTIVE_TASK_CONTEXTS, ACTION_REPLY_FUTURES,
           SERVER_ACTION_REPLY_FUTURES, futures, loop, info_pool, event_queue,
           consumed, vlm_calls, stream, sink, http, client_stub >>

\* ----------------------------------------------------------------- helpers
\* dict.get(key, default)
Get(d, key, default) == IF d[key] = None THEN default ELSE d[key]

\* a2a_utils.create_a2a_event; slot_ready is not a field of the event: it
\* records whether an unresolved reply future was registered for the task
\* at the moment of the push.  thought and wait_for_reply are the metadata
\* of an action_request; the other events have no wait_for_reply key
\* (FALSE) and their thought is left out (empty).
create_a2a_event(type, status, text, slot_ready) ==
    [type |-> type, status |-> status, text |-> text, slot_ready |-> slot_ready,
     thought |-> << >>, wait_for_reply |-> FALSE]

\* a2a_utils.create_action_request_event
create_action_request_event_bare(action_json, thought, slot_ready) ==
    create_a2a_event("action_request", None, action_json, slot_ready)

create_action_request_event(action_json, thought, slot_ready) ==
    [create_a2a_event("action_request", None, action_json, slot_ready)
        EXCEPT !.thought = thought, !.wait_for_reply = TRUE]

\* Executor.parse_response: the Thought and the Action section of the
\* Executor's reply.  A reply is named by the text of its Action section;
\* its Thought section is the one that came with it.
parse_response(output_action) ==
    [thought |-> <<"thought", output_action>>, action |-> output_action]

\* No action object: nothing decoded yet, or the text decoded to something
\* that is not a JSON object.
NoAction == [action |-> None, text |-> None, status |-> None]

\* json.loads of the action text
JsonLoads(s) ==
    CASE s = "click"       -> [ok |-> TRUE, isdict |-> TRUE,
                               obj |-> [action |-> "click", text |-> None, status |-> None]]
      [] s = "answer text" -> [ok |-> TRUE, isdict |-> TRUE,
                               obj |-> [action |-> "answer", text |-> "opened", status |-> None]]
      [] s = "answer bare" -> [ok |-> TRUE, isdict |-> TRUE,
                               obj |-> [action |-> "answer", text |-> None, status |-> None]]
      [] s = "42"          -> [ok |-> TRUE, isdict |-> FALSE, obj |-> NoAction]
      [] OTHER             -> [ok |-> FALSE, isdict |-> FALSE, obj |-> NoAction]

\* "Finished" in info_pool.plan.strip()
PlanFinished_never(plan) == FALSE

PlanFinished(plan) == \E i \in 1..Len(plan) : plan[i] = "Finished"

\* action_type == "answer"
IsAnswer_never(action_object) == FALSE

IsAnswer(action_object) == action_object.action = "answer"

\* reply.get("type") != "action_reply"
InvalidReply(reply) == reply.type # "action_reply"

\* ------------------------------------------------------- reply futures
NewFuture == [state |-> "pending", result |-> None]

Done(f) == f.state # "pending"

\* get_action_reply_future / get_reply_future: the registry and the futures
\* of task_id after the call, and the future returned.
get_action_reply_future_unregistered(reg, futs, task_id) ==
    [reg  |-> [reg EXCEPT ![task_id] = Len(futs) + 1],
     futs |-> Append(Append(futs, NewFuture), NewFuture),
     fut  |-> Len(futs) + 2]

get_action_reply_future_replacing(reg, futs, task_id) ==
    [reg  |-> [reg EXCEPT ![task_id] = Len(futs) + 1],
     futs |-> Append(futs, NewFuture),
     fut  |-> Len(futs) + 1]

get_action_reply_future(reg, futs, task_id) ==
    IF reg[task_id] = 0 \/ Done(futs[reg[task_id]])
    THEN [reg  |-> [reg EXCEPT ![task_id] = Len(futs) + 1],
          futs |-> Append(futs, NewFuture),
          fut  |-> Len(futs) + 1]
    ELSE [reg |-> reg, futs |-> futs, fut |-> reg[task_id]]

\* An unresolved future is registered for the task.
SlotReady(t) ==
    /\ ACTION_REPLY_FUTURES[t] # 0
    /\ ~Done(futures[t][ACTION_REPLY_FUTURES[t]])

\* ------------------------------------------------------------------ Init
NoLoop ==
    [pc |-> "none", mode |-> None, step |-> 0, max_step |-> 0,
     if_notetaker |-> FALSE, current_screenshot |-> 0, screenshot_after |-> 0,
     action_object |-> NoAction, reply_future |-> 0, exc |-> None,
     exit |-> None, waits |-> 0, script |-> << >>]

NewInfoPool ==
    [plan |-> << >>, action_history |-> << >>, action_outcomes |-> << >>,
     error_descriptions |-> << >>, summary_history |-> << >>,
     important_notes |-> None,
     error_flag_plan |-> FALSE, err_to_manager_thresh |-> 2]

\* a2a_mock.get_complex_client_script: the reply to action i carries image i+1
get_complex_client_script == [i \in 1..ScriptLen |-> [screenshot_b64 |-> i + 1]]

\* A2AClientStub.__init__ as every caller uses it, with no mock_script argument;
\* pc, calls, returns and reply record the calls of wait_for_client_reply.
NewClientStub ==
    [action_counter |-> 0, mock_script |-> get_complex_client_script,
     pc |-> "idle", calls |-> 0, returns |-> 0,
     reply |-> [type |-> None, screenshot_b64 |-> 0]]

\* A2AClientStub.wait_for_client_reply up to its first suspension point: with the
\* script used up it returns at once, the last entry's screenshot in the reply;
\* otherwise it suspends in asyncio.sleep(0.1).
wait_for_client_reply_counts_on(stub) ==
    IF stub.action_counter >= Len(stub.mock_script)
    THEN [stub EXCEPT
            !.action_counter = @ + 1,
            !.calls = @ + 1, !.returns = @ + 1,
            !.reply = [type |-> "action_reply",
                       screenshot_b64 |->
                          stub.mock_script[Len(stub.mock_script)].screenshot_b64]]
    ELSE [stub EXCEPT !.calls = @ + 1, !.pc = "sleeping"]

wait_for_client_reply(stub) ==
    IF stub.action_counter >= Len(stub.mock_script)
    THEN [stub EXCEPT
            !.calls = @ + 1, !.returns = @ + 1,
            !.reply = [type |-> "action_reply",
                       screenshot_b64 |->
                          stub.mock_script[Len(stub.mock_script)].screenshot_b64]]
    ELSE [stub EXCEPT !.calls = @ + 1, !.pc = "sleeping"]

\* ... and after the sleep: reply_data = mock_script[action_counter] (0-based),
\* action_counter += 1, return the reply built from reply_data.
wait_for_client_reply_resumed(stub) ==
    [stub EXCEPT
        !.action_counter = @ + 1,
        !.returns = @ + 1,
        !.pc = "idle",
        !.reply = [type |-> "action_reply",
                   screenshot_b64 |->
                      stub.mock_script[stub.action_counter + 1].screenshot_b64]]

Init ==
    /\ process \in Modes
    /\ TASK_COUNTER = TASK_COUNTER_INIT
    /\ ACTIVE_TASK_CONTEXTS = {}
    /\ ACTION_REPLY_FUTURES = [t \in TaskIds |-> 0]
    /\ SERVER_ACTION_REPLY_FUTURES = [t \in TaskIds |-> 0]
    /\ futures = [t \in TaskIds |-> << >>]
    /\ loop = [t \in TaskIds |-> NoLoop]
    /\ info_pool = [t \in TaskIds |-> NewInfoPool]
    /\ event_queue = [t \in TaskIds |-> << >>]
    /\ consumed = [t \in TaskIds |-> 0]
    /\ vlm_calls = [t \in TaskIds |-> << >>]
    /\ stream = [t \in TaskIds |-> [state |-> "none", yielded |-> << >>]]
    /\ sink = [t \in TaskIds |-> [state |-> "none", reply_counter |-> 0]]
    /\ http = [task |-> 0, status |-> None, late |-> FALSE, fut |-> 0]
    /\ client_stub = [t \in TaskIds |-> NewClientStub]

\* ------------------------------------------------------- the control loop
\* loop[t].pc is the await the coroutine is suspended at:
\*   "created"    scheduled by ensure_future, not yet run
\*   "planning"   predict_mm for the Manager
\*   "acting"     predict_mm for the Executor
\*   "awaiting"   wait_for_client_reply
\*   "reflecting" predict_mm for the ActionReflector
\*   "noting"     predict_mm for the Notetaker
\*   "returned"   _execute_task_logic returned
\*   "raised"     an exception left _execute_task_logic (loop[t].exc)
\*   "cancelled"  CancelledError was thrown into the coroutine
\* loop[t].exit (why the for loop was left), loop[t].waits (calls of
\* wait_for_client_reply) and loop[t].script (what the loop's doubles have
\* handed it so far: the responses of predict_mm, the replies and timeouts
\* of wait_for_client_reply, a cancellation) are not locals of the code:
\* they record history.

IsReal(t) == loop[t].mode \in {"server", "sink"}

Call(role, images) == [role |-> role, images |-> images]

\* The loop has been handed `out` by the double playing `role`.
Consume(l, role, out) ==
    [l EXCEPT !.script = Append(@, [role |-> role, out |-> out])]

Push(t, q, type, status, payload) ==
    Append(q, create_a2a_event(type, status, payload, SlotReady(t)))

\* The code after the for loop: push task_finalized(success) and return.
AfterLoop_failed(t, l, q, why) ==
    /\ loop' = [loop EXCEPT ![t] = [l EXCEPT !.pc = "returned", !.exit = why]]
    /\ event_queue' = [event_queue EXCEPT ![t] =
                          Push(t, q, "task_finalized", "failed", None)]
    /\ UNCHANGED vlm_calls

AfterLoop(t, l, q, why) ==
    /\ loop' = [loop EXCEPT ![t] = [l EXCEPT !.pc = "returned", !.exit = why]]
    /\ event_queue' = [event_queue EXCEPT ![t] =
                          Push(t, q, "task_finalized", "success", None)]
    /\ UNCHANGED vlm_calls

\* Top of the for loop for iteration l.step: the Manager's predict_mm, or
\* the end of range(max_step).
ForStep_short(t, l, q) ==
    IF l.step + 1 < l.max_step
    THEN /\ loop' = [loop EXCEPT ![t] = [l EXCEPT !.pc = "planning"]]
         /\ event_queue' = [event_queue EXCEPT ![t] = q]
         /\ vlm_calls' = [vlm_calls EXCEPT ![t] =
                             Append(@, Call("manager", <<l.current_screenshot>>))]
    ELSE AfterLoop(t, l, q, "exhausted")

ForStep_unbounded(t, l, q) ==
    /\ loop' = [loop EXCEPT ![t] = [l EXCEPT !.pc = "planning"]]
    /\ event_queue' = [event_queue EXCEPT ![t] = q]
    /\ vlm_calls' = [vlm_calls EXCEPT ![t] =
                        Append(@, Call("manager", <<l.current_screenshot>>))]

ForStep(t, l, q) ==
    IF l.step < l.max_step
    THEN /\ loop' = [loop EXCEPT ![t] = [l EXCEPT !.pc = "planning"]]
         /\ event_queue' = [event_queue EXCEPT ![t] = q]
         /\ vlm_calls' = [vlm_calls EXCEPT ![t] =
                             Append(@, Call("manager", <<l.current_screenshot>>))]
    ELSE AfterLoop(t, l, q, "exhausted")

\* `continue`, or the end of the loop body: the next iteration.
NextStep_retry(t, l, q) == ForStep(t, l, q)

NextStep_skips_planner(t, l, q) ==
    IF l.step + 1 < l.max_step
    THEN /\ loop' = [loop EXCEPT ![t] =
                [l EXCEPT !.pc = "acting", !.step = l.step + 1]]
         /\ event_queue' = [event_queue EXCEPT ![t] = q]
         /\ vlm_calls' = [vlm_calls EXCEPT ![t] =
                             Append(@, Call("executor", <<l.current_screenshot>>))]
    ELSE AfterLoop(t, [l EXCEPT !.step = l.step + 1], q, "exhausted")

NextStep(t, l, q) == ForStep(t, [l EXCEPT !.step = l.step + 1], q)

\* _execute_task_logic up to its first await.
EnterLoop(t, mode, max_step, if_notetaker) ==
    /\ info_pool' = [info_pool EXCEPT ![t] = NewInfoPool]
    /\ ForStep(t, [NoLoop EXCEPT !.mode = mode, !.max_step = max_step,
                                 !.if_notetaker = if_notetaker,
                                 !.current_screenshot = InitialScreenshot],
               event_queue[t])

\* execute_task with an A2AInterfaceBase double injected.
StartDouble(t) ==
    /\ process = "double"
    /\ loop[t].pc = "none"
    /\ \E nt \in BOOLEAN : EnterLoop(t, "double", MaxStep, nt)
    /\ UNCHANGED << process, TASK_COUNTER, ACTIVE_TASK_CONTEXTS, ACTION_REPLY_FUTURES,
                    SERVER_ACTION_REPLY_FUTURES, futures, consumed, stream,
                    sink, http, client_stub >>

\* execute_task called once, with a test double and the Notetaker enabled.
StartSingle(t) ==
    /\ process = "single"
    /\ \A u \in TaskIds : loop[u].pc = "none"
    /\ EnterLoop(t, "double", MaxStepSingle, TRUE)
    /\ UNCHANGED << process, TASK_COUNTER, ACTIVE_TASK_CONTEXTS, ACTION_REPLY_FUTURES,
                    SERVER_ACTION_REPLY_FUTURES, futures, consumed, stream,
                    sink, http, client_stub >>

\* Manager.get_prompt: the prompt has the section with the log of the
\* recent failed attempts (not on the first planning, when plan is empty).
ManagerPromptHasFailureLog(pool) ==
    /\ pool.plan # << >>
    /\ pool.error_flag_plan

\* The Manager's reply: lines 246-260.
ManagerReturns(t) ==
    /\ loop[t].pc = "planning"
    /\ \E plan \in PlanTexts :
        LET q == Push(t, event_queue[t], "manager_plan", None, plan)
            l == Consume(loop[t], "manager", plan)
        IN
        /\ info_pool' = [info_pool EXCEPT ![t].plan = plan]
        /\ IF PlanFinished(plan)
           THEN AfterLoop(t, l, q, "plan")
           ELSE /\ loop' = [loop EXCEPT ![t] = [l EXCEPT !.pc = "acting"]]
                /\ event_queue' = [event_queue EXCEPT ![t] = q]
                /\ vlm_calls' = [vlm_calls EXCEPT ![t] =
                       Append(@, Call("executor", <<loop[t].current_screenshot>>))]
    /\ UNCHANGED << process, TASK_COUNTER, ACTIVE_TASK_CONTEXTS, ACTION_REPLY_FUTURES,
                    SERVER_ACTION_REPLY_FUTURES, futures, consumed, stream,
                    sink, http, client_stub >>

\* The Executor's reply: lines 270-309, up to the await in
\* wait_for_client_reply.
ExecutorReturns(t) ==
    /\ loop[t].pc = "acting"
    /\ \E s \in ActionStrs :
        LET j == JsonLoads(s)
            c == Consume(loop[t], "executor", <<s>>)
            l == [c EXCEPT !.action_object = j.obj]
        IN
        IF ~j.ok
        THEN \* json.JSONDecodeError: continue
             /\ NextStep(t, c, event_queue[t])
             /\ UNCHANGED << ACTION_REPLY_FUTURES, futures >>
        ELSE IF ~j.isdict
        THEN \* action_object.get: AttributeError
             /\ loop' = [loop EXCEPT ![t] =
                            [l EXCEPT !.pc = "raised", !.exc = "AttributeError"]]
             /\ UNCHANGED << event_queue, vlm_calls, ACTION_REPLY_FUTURES, futures >>
        ELSE IF IsAnswer(j.obj)
        THEN /\ AfterLoop(t, l,
                    Append(event_queue[t],
                           create_a2a_event("final_answer",
                               Get(j.obj, "status", "success"),
                               Get(j.obj, "text", "Task completed."),
                               SlotReady(t))),
                    "answer")
             /\ UNCHANGED << ACTION_REPLY_FUTURES, futures >>
        ELSE \* push the action request, then wait_for_client_reply
             LET q == Append(event_queue[t],
                             create_action_request_event(
                                 parse_response(s).action,
                                 parse_response(s).thought, SlotReady(t)))
                 r == get_action_reply_future(ACTION_REPLY_FUTURES, futures[t], t)
             IN
             /\ event_queue' = [event_queue EXCEPT ![t] = q]
             /\ UNCHANGED vlm_calls
             /\ IF IsReal(t)
                THEN /\ ACTION_REPLY_FUTURES' = r.reg
                     /\ futures' = [futures EXCEPT ![t] = r.futs]
                     /\ loop' = [loop EXCEPT ![t] =
                            [l EXCEPT !.pc = "awaiting", !.reply_future = r.fut,
                                      !.waits = l.waits + 1]]
                ELSE /\ UNCHANGED << ACTION_REPLY_FUTURES, futures >>
                     /\ loop' = [loop EXCEPT ![t] =
                            [l EXCEPT !.pc = "awaiting", !.waits = l.waits + 1]]
    /\ UNCHANGED << process, TASK_COUNTER, ACTIVE_TASK_CONTEXTS,
                    SERVER_ACTION_REPLY_FUTURES, info_pool, consumed, stream,
                    sink, http, client_stub >>

\* Lines 311-335: the reply is back in the loop.
AfterReply_unreflected(t, reply) ==
    IF InvalidReply(reply)
    THEN AfterLoop(t, Consume(loop[t], "client", <<reply.type>>),
                   Push(t, event_queue[t], "task_finalized", "failed", None),
                   "invalid_reply")
    ELSE NextStep(t, [Consume(loop[t], "client", <<reply.type>>) EXCEPT
                          !.screenshot_after = reply.screenshot_b64,
                          !.current_screenshot = reply.screenshot_b64],
                  event_queue[t])

AfterReply_stale(t, reply) ==
    IF InvalidReply(reply)
    THEN AfterLoop(t, Consume(loop[t], "client", <<reply.type>>),
                   Push(t, event_queue[t], "task_finalized", "failed", None),
                   "invalid_reply")
    ELSE /\ loop' = [loop EXCEPT ![t] =
                [Consume(@, "client", <<reply.type>>) EXCEPT !.pc = "reflecting"]]
         /\ vlm_calls' = [vlm_calls EXCEPT ![t] =
                Append(@, Call("reflector",
                               <<loop[t].current_screenshot,
                                 loop[t].current_screenshot>>))]
         /\ UNCHANGED event_queue

AfterReply(t, reply) ==
    IF InvalidReply(reply)
    THEN AfterLoop(t, Consume(loop[t], "client", <<reply.type>>),
                   Push(t, event_queue[t], "task_finalized", "failed", None),
                   "invalid_reply")
    ELSE /\ loop' = [loop EXCEPT ![t] =
                [Consume(@, "client", <<reply.type>>) EXCEPT
                          !.pc = "reflecting",
                          !.screenshot_after = reply.screenshot_b64,
                          !.current_screenshot = reply.screenshot_b64]]
         /\ vlm_calls' = [vlm_calls EXCEPT ![t] =
                Append(@, Call("reflector",
                               <<reply.screenshot_b64, reply.screenshot_b64>>))]
         /\ UNCHANGED event_queue

\* The cleanup of wait_for_client_reply's finally clause.
PopReplyFuture_skip(reg, task_id) == reg

PopReplyFuture_clear(reg, task_id) == [u \in TaskIds |-> 0]

PopReplyFuture(reg, task_id) == [reg EXCEPT ![task_id] = 0]

\* A2AInterfaceReal.wait_for_client_reply once its future has a result:
\* the finally clause pops the key, the reply is returned.
ReplyReceived(t) ==
    /\ loop[t].pc = "awaiting"
    /\ IsReal(t)
    /\ futures[t][loop[t].reply_future].state = "done"
    /\ ACTION_REPLY_FUTURES' = PopReplyFuture(ACTION_REPLY_FUTURES, t)
    /\ AfterReply(t, futures[t][loop[t].reply_future].result)
    /\ UNCHANGED << process, TASK_COUNTER, ACTIVE_TASK_CONTEXTS,
                    SERVER_ACTION_REPLY_FUTURES, futures, info_pool, consumed,
                    stream, sink, http, client_stub >>

\* asyncio.wait_for times out: the future is cancelled, TimeoutError is
\* raised through the finally clause and leaves _execute_task_logic.
ReplyTimeout(t) ==
    /\ loop[t].pc = "awaiting"
    /\ IsReal(t)
    /\ futures[t][loop[t].reply_future].state = "pending"
    /\ futures' = [futures EXCEPT ![t][loop[t].reply_future].state = "cancelled"]
    /\ ACTION_REPLY_FUTURES' = PopReplyFuture(ACTION_REPLY_FUTURES, t)
    /\ loop' = [loop EXCEPT ![t] =
           [Consume(@, "client", <<"timeout">>) EXCEPT
               !.pc = "raised", !.exc = "TimeoutError"]]
    /\ UNCHANGED << process, TASK_COUNTER, ACTIVE_TASK_CONTEXTS,
                    SERVER_ACTION_REPLY_FUTURES, info_pool, event_queue,
                    consumed, vlm_calls, stream, sink, http, client_stub >>

\* A test double's wait_for_client_reply returns a reply.
DoubleReply(t) ==
    /\ loop[t].pc = "awaiting"
    /\ loop[t].mode = "double"
    /\ \E ty \in ReplyTypes :
          AfterReply(t, [type |-> ty, screenshot_b64 |-> loop[t].waits + 1])
    /\ UNCHANGED << process, TASK_COUNTER, ACTIVE_TASK_CONTEXTS, ACTION_REPLY_FUTURES,
                    SERVER_ACTION_REPLY_FUTURES, futures, info_pool, consumed,
                    stream, sink, http, client_stub >>

\* A test double's wait_for_client_reply raises the timeout condition.
DoubleTimeout(t) ==
    /\ loop[t].pc = "awaiting"
    /\ loop[t].mode = "double"
    /\ loop' = [loop EXCEPT ![t] =
           [Consume(@, "client", <<"timeout">>) EXCEPT
               !.pc = "raised", !.exc = "TimeoutError"]]
    /\ UNCHANGED << process, TASK_COUNTER, ACTIVE_TASK_CONTEXTS, ACTION_REPLY_FUTURES,
                    SERVER_ACTION_REPLY_FUTURES, futures, info_pool,
                    event_queue, consumed, vlm_calls, stream, sink, http, client_stub >>

\* info_pool.action_history.append(action_object);
\* info_pool.action_outcomes.append(action_outcome)
AppendHistory_shared(pools, t, action_object, outcome) ==
    [u \in TaskIds |->
        [pools[u] EXCEPT !.action_history = Append(@, action_object),
                         !.action_outcomes = Append(@, outcome)]]

AppendHistory_outcome_only(pools, t, action_object, outcome) ==
    [pools EXCEPT ![t].action_outcomes = Append(@, outcome)]

AppendHistory(pools, t, action_object, outcome) ==
    [pools EXCEPT ![t].action_history = Append(@, action_object),
                  ![t].action_outcomes = Append(@, outcome)]

\* action_outcome == "A" and if_notetaker
TakesNote_never(outcome, if_notetaker) == FALSE

TakesNote_unconditional(outcome, if_notetaker) == outcome = "A"

TakesNote(outcome, if_notetaker) == outcome = "A" /\ if_notetaker

\* The Reflector's reply: lines 337-355, and 372 when no note is taken.
ReflectorReturns(t) ==
    /\ loop[t].pc = "reflecting"
    /\ \E outcome \in Outcomes :
        LET q == Push(t, event_queue[t], "action_reflection", None, outcome)
            l == Consume(loop[t], "reflector", <<outcome>>)
        IN
        /\ info_pool' = AppendHistory(info_pool, t, l.action_object, outcome)
        /\ IF TakesNote(outcome, l.if_notetaker)
           THEN /\ loop' = [loop EXCEPT ![t] = [l EXCEPT !.pc = "noting"]]
                /\ event_queue' = [event_queue EXCEPT ![t] = q]
                /\ vlm_calls' = [vlm_calls EXCEPT ![t] =
                       Append(@, Call("notetaker", <<loop[t].screenshot_after>>))]
           ELSE NextStep(t, [l EXCEPT
                                !.current_screenshot = l.screenshot_after], q)
    /\ UNCHANGED << process, TASK_COUNTER, ACTIVE_TASK_CONTEXTS, ACTION_REPLY_FUTURES,
                    SERVER_ACTION_REPLY_FUTURES, futures, consumed, stream,
                    sink, http, client_stub >>

\* The Notetaker's reply: lines 363-372.
NotetakerReturns(t) ==
    /\ loop[t].pc = "noting"
    /\ info_pool' = [info_pool EXCEPT ![t].important_notes = "notes"]
    /\ NextStep(t, [Consume(loop[t], "notetaker", <<"notes">>) EXCEPT
                        !.current_screenshot = loop[t].screenshot_after],
                Push(t, event_queue[t], "important_notes", None, "notes"))
    /\ UNCHANGED << process, TASK_COUNTER, ACTIVE_TASK_CONTEXTS, ACTION_REPLY_FUTURES,
                    SERVER_ACTION_REPLY_FUTURES, futures, consumed, stream,
                    sink, http, client_stub >>

\* ------------------------------------------------ A2AEventSink (a2a_mock)
\* The loop called with an A2AInterfaceReal whose queue an A2AEventSink reads.
StartSink(t) ==
    /\ process = "sink"
    /\ loop[t].pc = "none"
    /\ \E nt \in BOOLEAN : EnterLoop(t, "sink", MaxStep, nt)
    /\ sink' = [sink EXCEPT ![t] = [state |-> "running", reply_counter |-> 0]]
    /\ UNCHANGED << process, TASK_COUNTER, ACTIVE_TASK_CONTEXTS, ACTION_REPLY_FUTURES,
                    SERVER_ACTION_REPLY_FUTURES, futures, consumed, stream, http, client_stub >>

\* mock_reply_script[i] of get_complex_client_script, as the reply built
\* from it (i counts from 0).
SinkReply(i) == [type |-> "action_reply", screenshot_b64 |-> i + 2]

\* One turn of run_event_loop's while loop: lines 79-116.  After
\* set_result the method reads self.logger, which A2AEventSink never
\* sets: AttributeError ends run_event_loop.
SinkNext(t) ==
    /\ sink[t].state = "running"
    /\ consumed[t] < Len(event_queue[t])
    /\ consumed' = [consumed EXCEPT ![t] = @ + 1]
    /\ LET event == event_queue[t][consumed[t] + 1]
           f == ACTION_REPLY_FUTURES[t]
       IN
       IF event.type = "action_request" /\ sink[t].reply_counter < ScriptLen
       THEN IF f = 0 \/ Done(futures[t][f])
            THEN /\ sink' = [sink EXCEPT ![t].state = "crashed"]
                 /\ UNCHANGED futures
            ELSE /\ futures' = [futures EXCEPT ![t][f] =
                        [state |-> "done", result |-> SinkReply(sink[t].reply_counter)]]
                 /\ sink' = [sink EXCEPT ![t] =
                        [state |-> "crashed", reply_counter |-> @.reply_counter + 1]]
       ELSE /\ sink' = [sink EXCEPT ![t].state =
                     IF event.type = "task_finalized" THEN "stopped" ELSE "running"]
            /\ UNCHANGED futures
    /\ UNCHANGED << process, TASK_COUNTER, ACTIVE_TASK_CONTEXTS, ACTION_REPLY_FUTURES,
                    SERVER_ACTION_REPLY_FUTURES, loop, info_pool, event_queue,
                    vlm_calls, stream, http, client_stub >>

\* event_queue.get() times out after 120 s without an event: break.
SinkIdle(t) ==
    /\ sink[t].state = "running"
    /\ consumed[t] = Len(event_queue[t])
    /\ sink' = [sink EXCEPT ![t].state = "stopped"]
    /\ UNCHANGED << process, TASK_COUNTER, ACTIVE_TASK_CONTEXTS, ACTION_REPLY_FUTURES,
                    SERVER_ACTION_REPLY_FUTURES, futures, loop, info_pool,
                    event_queue, consumed, vlm_calls, stream, http, client_stub >>

\* ------------------------------------------------- run_a2a_server.py
\* a2a_utils.create_a2a_status_update
create_a2a_status_update(state, final) ==
    [kind |-> "status-update", state |-> state, final |-> final]

\* a2a_utils.V3_to_A2A_Event
V3_to_A2A_Event_nonfinal(v3_event) ==
    CASE v3_event.type = "action_request" ->
            [kind |-> "tool_call_request", state |-> None, final |-> FALSE]
      [] v3_event.type = "task_finalized" ->
            create_a2a_status_update(v3_event.status, FALSE)
      [] OTHER ->
            [kind |-> "message", state |-> None, final |-> FALSE]

V3_to_A2A_Event(v3_event) ==
    CASE v3_event.type = "manager_plan" ->
            [kind |-> "message", state |-> None, final |-> FALSE]
      [] v3_event.type = "action_request" ->
            [kind |-> "tool_call_request", state |-> None, final |-> FALSE]
      [] v3_event.type = "task_finalized" ->
            create_a2a_status_update(v3_event.status, TRUE)
      [] OTHER ->
            [kind |-> "message", state |-> None, final |-> FALSE]

\* _handle_stream_logic: TASK_COUNTER += 1; l1_task_id = TASK_COUNTER
StreamRequest_reuses ==
    /\ process = "server"
    /\ TASK_COUNTER + 1 \in TaskIds
    /\ TASK_COUNTER' = TASK_COUNTER
    /\ stream' = [stream EXCEPT ![TASK_COUNTER + 1] =
           [state |-> "accepted", yielded |-> << >>]]
    /\ UNCHANGED << process, ACTIVE_TASK_CONTEXTS, ACTION_REPLY_FUTURES,
                    SERVER_ACTION_REPLY_FUTURES, futures, loop, info_pool,
                    event_queue, consumed, vlm_calls, sink, http, client_stub >>

StreamRequest ==
    /\ process = "server"
    /\ TASK_COUNTER + 1 \in TaskIds
    /\ TASK_COUNTER' = TASK_COUNTER + 1
    /\ stream' = [stream EXCEPT ![TASK_COUNTER + 1].state = "accepted"]
    /\ UNCHANGED << process, ACTIVE_TASK_CONTEXTS, ACTION_REPLY_FUTURES,
                    SERVER_ACTION_REPLY_FUTURES, futures, loop, info_pool,
                    event_queue, consumed, vlm_calls, sink, http, client_stub >>

\* event_generator up to its first yield: lines 129-149.
StreamBegin(t) ==
    /\ stream[t].state = "accepted"
    /\ loop' = [loop EXCEPT ![t] = [NoLoop EXCEPT !.pc = "created", !.mode = "server"]]
    /\ ACTIVE_TASK_CONTEXTS' = ACTIVE_TASK_CONTEXTS \cup {t}
    /\ stream' = [stream EXCEPT ![t] =
           [state |-> "running",
            yielded |-> << create_a2a_status_update("running", FALSE) >>]]
    /\ UNCHANGED << process, TASK_COUNTER, ACTION_REPLY_FUTURES,
                    SERVER_ACTION_REPLY_FUTURES, futures, info_pool,
                    event_queue, consumed, vlm_calls, sink, http, client_stub >>

\* The task made by ensure_future runs for the first time:
\* execute_task_a2a_mode with its defaults (if_notetaker False).
LoopBegin(t) ==
    /\ loop[t].pc = "created"
    /\ EnterLoop(t, "server", MaxStep, FALSE)
    /\ UNCHANGED << process, TASK_COUNTER, ACTIVE_TASK_CONTEXTS, ACTION_REPLY_FUTURES,
                    SERVER_ACTION_REPLY_FUTURES, futures, consumed, stream,
                    sink, http, client_stub >>

Suspended == {"created", "planning", "acting", "awaiting", "reflecting", "noting"}

\* task_future.cancel(): CancelledError at the await the coroutine is
\* suspended at; inside wait_for_client_reply the awaited future is
\* cancelled and the finally clause pops the key.
CancelTask_forgets_wait(t) ==
    /\ IF loop[t].pc \in Suspended
       THEN loop' = [loop EXCEPT ![t] =
                [Consume(@, "client", <<"cancel">>) EXCEPT !.pc = "cancelled"]]
       ELSE UNCHANGED loop
    /\ UNCHANGED << futures, ACTION_REPLY_FUTURES >>

CancelTask(t) ==
    IF loop[t].pc \in Suspended
    THEN /\ loop' = [loop EXCEPT ![t] =
                [Consume(@, "client", <<"cancel">>) EXCEPT !.pc = "cancelled"]]
         /\ IF loop[t].pc = "awaiting" /\ IsReal(t)
            THEN /\ futures' = [futures EXCEPT ![t][loop[t].reply_future].state =
                        IF @ = "pending" THEN "cancelled" ELSE @]
                 /\ ACTION_REPLY_FUTURES' = PopReplyFuture(ACTION_REPLY_FUTURES, t)
            ELSE UNCHANGED << futures, ACTION_REPLY_FUTURES >>
    ELSE UNCHANGED << loop, futures, ACTION_REPLY_FUTURES >>

\* The finally clause of event_generator: lines 180-182.
StreamFinally(t) ==
    /\ CancelTask(t)
    /\ ACTIVE_TASK_CONTEXTS' = ACTIVE_TASK_CONTEXTS \ {t}

\* One turn of event_generator's while loop: lines 152-171.
StreamNext_reads_on(t) ==
    /\ stream[t].state = "running"
    /\ consumed[t] < Len(event_queue[t])
    /\ consumed' = [consumed EXCEPT ![t] = @ + 1]
    /\ stream' = [stream EXCEPT ![t].yielded =
           Append(@, V3_to_A2A_Event(event_queue[t][consumed[t] + 1]))]
    /\ UNCHANGED << process, TASK_COUNTER, ACTIVE_TASK_CONTEXTS, ACTION_REPLY_FUTURES,
                    SERVER_ACTION_REPLY_FUTURES, futures, loop, info_pool,
                    event_queue, vlm_calls, sink, http, client_stub >>

StreamNext(t) ==
    /\ stream[t].state = "running"
    /\ consumed[t] < Len(event_queue[t])
    /\ consumed' = [consumed EXCEPT ![t] = @ + 1]
    /\ LET a2a_event == V3_to_A2A_Event(event_queue[t][consumed[t] + 1]) IN
       IF a2a_event.kind = "status-update" /\ a2a_event.final
       THEN /\ stream' = [stream EXCEPT ![t] =
                   [state |-> "closed", yielded |-> Append(@.yielded, a2a_event)]]
            /\ StreamFinally(t)
       ELSE /\ stream' = [stream EXCEPT ![t].yielded = Append(@, a2a_event)]
            /\ UNCHANGED << ACTIVE_TASK_CONTEXTS, loop, futures, ACTION_REPLY_FUTURES >>
    /\ UNCHANGED << process, TASK_COUNTER, SERVER_ACTION_REPLY_FUTURES, info_pool,
                    event_queue, vlm_calls, sink, http, client_stub >>

\* The client drops the stream: CancelledError in event_generator.
StreamCancelled(t) ==
    /\ stream[t].state = "running"
    /\ stream' = [stream EXCEPT ![t].state = "closed"]
    /\ StreamFinally(t)
    /\ UNCHANGED << process, TASK_COUNTER, SERVER_ACTION_REPLY_FUTURES, info_pool,
                    event_queue, consumed, vlm_calls, sink, http, client_stub >>

\* A wait of t's loop for a reply has ended, and the loop is not waiting.
WaitEnded(t) == loop[t].waits >= 1 /\ loop[t].pc # "awaiting"

\* What receive_action_reply answers; late is not part of the answer: it
\* records whether the reply arrived after a wait of the task had ended.
Answer(l1_task_id, status) ==
    [task |-> l1_task_id, status |-> status, late |-> WaitEnded(l1_task_id),
     fut |-> 0]

\* POST /v1/tasks/{l1_task_id}/reply, sent by the client of a stream:
\* receive_action_reply, lines 243-254.
receive_action_reply_agent_registry(l1_task_id, reply_data) ==
    LET f == ACTION_REPLY_FUTURES[l1_task_id] IN
    /\ IF f = 0
       THEN /\ http' = Answer(l1_task_id, "404")
            /\ UNCHANGED << ACTION_REPLY_FUTURES, futures >>
       ELSE /\ ACTION_REPLY_FUTURES' =
                   [ACTION_REPLY_FUTURES EXCEPT ![l1_task_id] = 0]
            /\ IF ~Done(futures[l1_task_id][f])
               THEN /\ futures' = [futures EXCEPT ![l1_task_id][f] =
                           [state |-> "done", result |-> reply_data]]
                    /\ http' = Answer(l1_task_id, "ok")
               ELSE /\ UNCHANGED futures
                    /\ http' = Answer(l1_task_id, "warning")
    /\ UNCHANGED << process, TASK_COUNTER, ACTIVE_TASK_CONTEXTS,
                    SERVER_ACTION_REPLY_FUTURES, loop, info_pool, event_queue,
                    consumed, vlm_calls, stream, sink, client_stub >>

receive_action_reply_unchecked(l1_task_id, reply_data) ==
    LET f == SERVER_ACTION_REPLY_FUTURES[l1_task_id] IN
    /\ IF f = 0
       THEN /\ http' = Answer(l1_task_id, "404")
            /\ UNCHANGED << SERVER_ACTION_REPLY_FUTURES, futures >>
       ELSE /\ SERVER_ACTION_REPLY_FUTURES' =
                   [SERVER_ACTION_REPLY_FUTURES EXCEPT ![l1_task_id] = 0]
            /\ futures' = [futures EXCEPT ![l1_task_id][f] =
                   [state |-> "done", result |-> reply_data]]
            /\ http' = Answer(l1_task_id, "ok")
    /\ UNCHANGED << process, TASK_COUNTER, ACTIVE_TASK_CONTEXTS, ACTION_REPLY_FUTURES,
                    loop, info_pool, event_queue, consumed, vlm_calls, stream,
                    sink, client_stub >>

receive_action_reply_creates(l1_task_id, reply_data) ==
    LET f == SERVER_ACTION_REPLY_FUTURES[l1_task_id] IN
    /\ IF f = 0
       THEN /\ http' = Answer(l1_task_id, "ok")
            /\ SERVER_ACTION_REPLY_FUTURES' =
                   [SERVER_ACTION_REPLY_FUTURES EXCEPT
                       ![l1_task_id] = Len(futures[l1_task_id]) + 1]
            /\ futures' = [futures EXCEPT ![l1_task_id] =
                   Append(@, [state |-> "done", result |-> reply_data])]
       ELSE /\ SERVER_ACTION_REPLY_FUTURES' =
                   [SERVER_ACTION_REPLY_FUTURES EXCEPT ![l1_task_id] = 0]
            /\ IF ~Done(futures[l1_task_id][f])
               THEN /\ futures' = [futures EXCEPT ![l1_task_id][f] =
                           [state |-> "done", result |-> reply_data]]
                    /\ http' = Answer(l1_task_id, "ok")
               ELSE /\ UNCHANGED futures
                    /\ http' = Answer(l1_task_id, "warning")
    /\ UNCHANGED << process, TASK_COUNTER, ACTIVE_TASK_CONTEXTS, ACTION_REPLY_FUTURES,
                    loop, info_pool, event_queue, consumed, vlm_calls, stream,
                    sink, client_stub >>

receive_action_reply_keeps_slot(l1_task_id, reply_data) ==
    LET f == SERVER_ACTION_REPLY_FUTURES[l1_task_id] IN
    /\ IF f = 0
       THEN /\ http' = Answer(l1_task_id, "404")
            /\ UNCHANGED futures
       ELSE IF ~Done(futures[l1_task_id][f])
            THEN /\ futures' = [futures EXCEPT ![l1_task_id][f] =
                        [state |-> "done", result |-> reply_data]]
                 /\ http' = Answer(l1_task_id, "ok")
            ELSE /\ UNCHANGED futures
                 /\ http' = Answer(l1_task_id, "warning")
    /\ UNCHANGED << process, TASK_COUNTER, ACTIVE_TASK_CONTEXTS, ACTION_REPLY_FUTURES,
                    SERVER_ACTION_REPLY_FUTURES, loop, info_pool, event_queue,
                    consumed, vlm_calls, stream, sink, client_stub >>

receive_action_reply(l1_task_id, reply_data) ==
    LET f == SERVER_ACTION_REPLY_FUTURES[l1_task_id] IN
    /\ IF f = 0
       THEN /\ http' = Answer(l1_task_id, "404")
            /\ UNCHANGED << SERVER_ACTION_REPLY_FUTURES, futures >>
       ELSE /\ SERVER_ACTION_REPLY_FUTURES' =
                   [SERVER_ACTION_REPLY_FUTURES EXCEPT ![l1_task_id] = 0]
            /\ IF ~Done(futures[l1_task_id][f])
               THEN /\ futures' = [futures EXCEPT ![l1_task_id][f] =
                           [state |-> "done", result |-> reply_data]]
                    /\ http' = Answer(l1_task_id, "ok")
               ELSE /\ UNCHANGED futures
                    /\ http' = Answer(l1_task_id, "warning")
    /\ UNCHANGED << process, TASK_COUNTER, ACTIVE_TASK_CONTEXTS, ACTION_REPLY_FUTURES,
                    loop, info_pool, event_queue, consumed, vlm_calls, stream,
                    sink, client_stub >>

\* The action requests the client of t's stream has been sent.
RequestsYielded(t) ==
    Cardinality({ i \in 1..Len(stream[t].yielded) :
                    stream[t].yielded[i].kind = "tool_call_request" })

\* The client of a stream posts a reply: it answers the last request it was
\* sent, request k with the screenshot taken after it (image k + 1, as in
\* get_complex_client_script).
ReceiveActionReply(t) ==
    /\ stream[t].state # "none"
    /\ \E ty \in ReplyTypes :
          receive_action_reply(t, [type |-> ty,
                                   screenshot_b64 |-> RequestsYielded(t) + 1])

\* POST / with method tasks/cancel and params.id = task_id, sent by the
\* client of a stream: handle_a2a_rpc_root, lines 223-229.  The handler logs
\* the request and answers {"id": task_id, "status": "canceled"}.
TasksCancel(task_id) ==
    /\ process = "server"
    /\ stream[task_id].state # "none"
    /\ http' = [task |-> task_id, status |-> "canceled", late |-> FALSE,
                fut |-> 0]
    /\ UNCHANGED << process, TASK_COUNTER, ACTIVE_TASK_CONTEXTS, ACTION_REPLY_FUTURES,
                    SERVER_ACTION_REPLY_FUTURES, futures, loop, info_pool,
                    event_queue, consumed, vlm_calls, stream, sink, client_stub >>

\* -------------------------------------------------------------------- Next
Next ==
    \/ StreamRequest
    \/ \E t \in TaskIds :
        \/ StartDouble(t)
        \/ StartSingle(t)
        \/ StartSink(t)
        \/ StreamBegin(t)
        \/ LoopBegin(t)
        \/ ManagerReturns(t)
        \/ ExecutorReturns(t)
        \/ ReplyReceived(t)
        \/ ReplyTimeout(t)
        \/ DoubleReply(t)
        \/ DoubleTimeout(t)
        \/ ReflectorReturns(t)
        \/ NotetakerReturns(t)
        \/ SinkNext(t)
        \/ SinkIdle(t)
        \/ StreamNext(t)
        \/ StreamCancelled(t)
        \/ ReceiveActionReply(t)
        \/ TasksCancel(t)

Spec == Init /\ [][Next]_vars

\* ------------------------------ the reply registry of run_a2a_server.py
\* The two functions that touch run_a2a_server.ACTION_REPLY_FUTURES,
\* get_reply_future and receive_action_reply, called in any order on a
\* registry that holds, per task id, no future or a future in any of the
\* states of an asyncio.Future.  (The server itself never calls
\* get_reply_future: under Spec this registry stays empty.)

\* An asyncio.Future: pending, holding a result, or cancelled.
FutureValues ==
    { NewFuture,
      [state |-> "done", result |-> [type |-> "action_reply", screenshot_b64 |-> 1]],
      [state |-> "cancelled", result |-> None] }

HandlerInit ==
    /\ process = "module"
    /\ TASK_COUNTER = TASK_COUNTER_INIT
    /\ ACTIVE_TASK_CONTEXTS = {}
    /\ ACTION_REPLY_FUTURES = [t \in TaskIds |-> 0]
    /\ futures \in [TaskIds -> {<< >>} \cup { <<f>> : f \in FutureValues }]
    /\ SERVER_ACTION_REPLY_FUTURES \in [TaskIds -> {0, 1}]
    /\ \A t \in TaskIds : SERVER_ACTION_REPLY_FUTURES[t] <= Len(futures[t])
    /\ loop = [t \in TaskIds |-> NoLoop]
    /\ info_pool = [t \in TaskIds |-> NewInfoPool]
    /\ event_queue = [t \in TaskIds |-> << >>]
    /\ consumed = [t \in TaskIds |-> 0]
    /\ vlm_calls = [t \in TaskIds |-> << >>]
    /\ stream = [t \in TaskIds |-> [state |-> "none", yielded |-> << >>]]
    /\ sink = [t \in TaskIds |-> [state |-> "none", reply_counter |-> 0]]
    /\ http = [task |-> 0, status |-> None, late |-> FALSE, fut |-> 0]
    /\ client_stub = [t \in TaskIds |-> NewClientStub]

\* run_a2a_server.get_reply_future(task_id), lines 29-32.
GetReplyFuture(task_id) ==
    LET r == get_action_reply_future(SERVER_ACTION_REPLY_FUTURES,
                                     futures[task_id], task_id)
    IN
    /\ Len(r.futs) <= MaxFutures
    /\ SERVER_ACTION_REPLY_FUTURES' = r.reg
    /\ futures' = [futures EXCEPT ![task_id] = r.futs]
    /\ http' = [task |-> task_id, status |-> None, late |-> FALSE,
                fut |-> r.fut]
    /\ UNCHANGED << process, TASK_COUNTER, ACTIVE_TASK_CONTEXTS, ACTION_REPLY_FUTURES,
                    loop, info_pool, event_queue, consumed, vlm_calls, stream,
                    sink, client_stub >>

\* POST /v1/tasks/{l1_task_id}/reply with any payload.
PostReply(t) ==
    \E ty \in ReplyTypes :
        receive_action_reply(t, [type |-> ty, screenshot_b64 |-> 2])

HandlerNext ==
    \E t \in TaskIds :
        \/ GetReplyFuture(t)
        \/ PostReply(t)

HandlerSpec == HandlerInit /\ [][HandlerNext]_vars

\* ================================================================ claims
Finalized(e) == e.type = "task_finalized"

FinalizedWith(status, e) == e.type = "task_finalized" /\ e.status = status

NumEvents(t, ty) ==
    Cardinality({ i \in 1..Len(event_queue[t]) : event_queue[t][i].type = ty })

NumFinalized(t) == NumEvents(t, "task_finalized")

NumCalls(t, role) ==
    Cardinality({ i \in 1..Len(vlm_calls[t]) : vlm_calls[t][i].role = role })

Unresolved(t) ==
    { i \in 1..Len(futures[t]) : futures[t][i].state = "pending" }

\* C1: on every path by which the loop leaves its for loop (plan finished,
\* answer, invalid reply kind, step limit), exactly one task_finalized event
\* is pushed for the task, with status success or failed.
C1_ExactlyOneFinalized ==
    \A t \in TaskIds :
        loop[t].pc = "returned" =>
            /\ NumFinalized(t) = 1
            /\ \A i \in 1..Len(event_queue[t]) :
                  Finalized(event_queue[t][i]) =>
                      event_queue[t][i].status \in {"success", "failed"}

\* C2: between two steps of the loop (at the start of an iteration and
\* after the loop) the four history sequences of the InfoPool have the same
\* length.
C2_HistoriesEqualLength ==
    \A t \in TaskIds :
        loop[t].pc \in {"planning", "returned"} =>
            /\ Len(info_pool[t].action_history) = Len(info_pool[t].action_outcomes)
            /\ Len(info_pool[t].action_outcomes) = Len(info_pool[t].error_descriptions)
            /\ Len(info_pool[t].error_descriptions) = Len(info_pool[t].summary_history)

\* C3: with the registry-backed interface, every action_request event was
\* pushed when an unresolved reply future was already registered for its
\* task.
C3_SlotRegisteredBeforeRequest ==
    \A t \in TaskIds :
        IsReal(t) =>
            \A i \in 1..Len(event_queue[t]) :
                event_queue[t][i].type = "action_request" =>
                    event_queue[t][i].slot_ready

\* C4: when receive_action_reply is called for a task whose loop, run by
\* the server, is waiting for its reply, the handler answers ok and the
\* future the loop waits on holds the payload.
C4_ReplyResolvesWaitingLoop ==
    [][ \A t \in TaskIds :
          ( /\ http' # http
            /\ http'.task = t
            /\ loop[t].mode = "server"
            /\ loop[t].pc = "awaiting"
            /\ futures[t][loop[t].reply_future].state = "pending" )
          => /\ http'.status = "ok"
             /\ futures'[t][loop[t].reply_future].state = "done" ]_vars

\* C5: a task whose reply wait timed out ends with a terminal event of
\* status failed: once the reader of its events has taken all of them, a
\* failed task_finalized was pushed or a failed final status was yielded.
C5_TimeoutEndsWithFailedEvent ==
    \A t \in TaskIds :
        ( /\ loop[t].pc = "raised"
          /\ loop[t].exc = "TimeoutError"
          /\ loop[t].mode = "server"
          /\ consumed[t] = Len(event_queue[t]) )
        => \/ \E i \in 1..Len(event_queue[t]) :
                  FinalizedWith("failed", event_queue[t][i])
           \/ \E i \in 1..Len(stream[t].yielded) :
                  /\ stream[t].yielded[i].final
                  /\ stream[t].yielded[i].state = "failed"

\* C6: whenever A2AInterfaceReal.wait_for_client_reply finishes for a task
\* (reply, timeout or cancellation), ACTION_REPLY_FUTURES has no key for
\* that task afterwards.
C6_WaitCleansRegistry ==
    [][ \A t \in TaskIds :
          ( IsReal(t) /\ loop[t].pc = "awaiting" /\ loop'[t].pc # "awaiting" )
          => ACTION_REPLY_FUTURES'[t] = 0 ]_vars

\* Two waits have finished, one by a reply and one by a timeout.
C6_Witness ==
    \E t1, t2 \in TaskIds :
        /\ IsReal(t1) /\ loop[t1].pc = "reflecting" /\ loop[t1].waits = 1
        /\ IsReal(t2) /\ loop[t2].pc = "raised" /\ loop[t2].exc = "TimeoutError"
        /\ ACTION_REPLY_FUTURES[t1] = 0 /\ ACTION_REPLY_FUTURES[t2] = 0

\* C7: in every reachable state there is at most one unresolved reply
\* future per task id.
C7_AtMostOneUnresolvedSlot ==
    \A t \in TaskIds : Cardinality(Unresolved(t)) <= 1

\* A task waits on its second future, the first one resolved.
C7_Witness ==
    \E t \in TaskIds :
        /\ Len(futures[t]) = 2
        /\ futures[t][1].state = "done"
        /\ Unresolved(t) = {2}
        /\ ACTION_REPLY_FUTURES[t] = 2

\* C8: when the reply is not of kind action_reply, the loop pushes
\* task_finalized(failed), calls neither Reflector nor Notetaker for the
\* step, appends nothing to the histories, and pushes no
\* task_finalized(success).
C8_InvalidReplyFinalizesFailedOnly ==
    \A t \in TaskIds :
        loop[t].exit = "invalid_reply" =>
            /\ \E i \in 1..Len(event_queue[t]) :
                  FinalizedWith("failed", event_queue[t][i])
            /\ NumCalls(t, "reflector") = loop[t].waits - 1
            /\ Len(info_pool[t].action_history) = loop[t].waits - 1
            /\ \A i \in 1..Len(event_queue[t]) :
                  ~FinalizedWith("success", event_queue[t][i])

\* C9: when the Executor's decoded action is an answer, the loop pushes
\* final_answer with the answer's text and status (defaults "Task
\* completed." and "success"), then task_finalized(success), and returns;
\* it pushes no action_request, registers no future and does not wait.
C9_AnswerFinalizesWithoutRequest ==
    [][ \A t \in TaskIds :
          ( /\ loop[t].pc = "acting"
            /\ loop'[t].pc # "cancelled"
            /\ loop'[t].action_object.action = "answer" )
          => LET a == loop'[t].action_object
                 q == event_queue'[t]
                 n == Len(event_queue[t])
             IN /\ loop'[t].pc = "returned"
                /\ Len(q) = n + 2
                /\ SubSeq(q, 1, n) = event_queue[t]
                /\ q[n + 1].type = "final_answer"
                /\ q[n + 1].text = (IF a.text = None THEN "Task completed." ELSE a.text)
                /\ q[n + 1].status = (IF a.status = None THEN "success" ELSE a.status)
                /\ FinalizedWith("success", q[n + 2])
                /\ loop'[t].waits = loop[t].waits
                /\ ACTION_REPLY_FUTURES' = ACTION_REPLY_FUTURES
                /\ futures' = futures ]_vars

\* A loop has returned after an answer that carried a text.
C9_Witness ==
    \E t \in TaskIds :
        /\ loop[t].exit = "answer"
        /\ loop[t].pc = "returned"
        /\ Len(event_queue[t]) >= 2
        /\ event_queue[t][Len(event_queue[t]) - 1].type = "final_answer"
        /\ event_queue[t][Len(event_queue[t]) - 1].text = "opened"
        /\ loop[t].waits = 1

\* C10: when the plan parsed in a step contains the finished sentinel, the
\* loop pushes manager_plan for that plan, then task_finalized(success),
\* and returns: no Executor call, no action_request, no wait in that step.
C10_FinishedPlanFinalizes ==
    [][ \A t \in TaskIds :
          ( /\ loop[t].pc = "planning"
            /\ loop'[t].pc # "cancelled"
            /\ \E i \in 1..Len(info_pool'[t].plan) : info_pool'[t].plan[i] = "Finished" )
          => LET q == event_queue'[t]
                 n == Len(event_queue[t])
             IN /\ loop'[t].pc = "returned"
                /\ Len(q) = n + 2
                /\ SubSeq(q, 1, n) = event_queue[t]
                /\ q[n + 1].type = "manager_plan"
                /\ q[n + 1].text = info_pool'[t].plan
                /\ FinalizedWith("success", q[n + 2])
                /\ vlm_calls'[t] = vlm_calls[t]
                /\ loop'[t].waits = loop[t].waits
                /\ ACTION_REPLY_FUTURES' = ACTION_REPLY_FUTURES
                /\ futures' = futures ]_vars

\* A loop has returned because its second plan was finished.
C10_Witness ==
    \E t \in TaskIds :
        /\ loop[t].exit = "plan"
        /\ loop[t].pc = "returned"
        /\ loop[t].step = 1
        /\ NumCalls(t, "manager") = 2
        /\ NumCalls(t, "executor") = 1

\* The outputs the double playing `role` has handed to the loop of t.
ScriptOf(t, role) ==
    LET IsRole(e) == e.role = role
        sub == SelectSeq(loop[t].script, IsRole)
    IN [i \in 1..Len(sub) |-> sub[i].out]

\* The roles of the predict_mm calls of t, in order.
CallRoles(t) == [i \in 1..Len(vlm_calls[t]) |-> vlm_calls[t][i].role]

Terminal == {"returned", "raised", "cancelled"}

\* C11: in every step that reaches the Reflector, its predict_mm call gets
\* two images: first the image the Manager and the Executor were given in
\* that step, second the image of the step's reply.
C11_ReflectorGetsBeforeAndAfter ==
    \A t \in TaskIds :
        loop[t].pc = "reflecting" =>
            LET n == Len(vlm_calls[t]) IN
            /\ vlm_calls[t][n].role = "reflector"
            /\ vlm_calls[t][n - 1].role = "executor"
            /\ vlm_calls[t][n - 2].role = "manager"
            /\ vlm_calls[t][n].images =
                   << vlm_calls[t][n - 1].images[1], loop[t].screenshot_after >>
            /\ vlm_calls[t][n - 2].images = << vlm_calls[t][n - 1].images[1] >>

\* The step of t in which its Executor's output was handed over and failed
\* to decode.
MalformedStep(t) ==
    /\ loop[t].pc = "acting"
    /\ Len(loop'[t].script) = Len(loop[t].script) + 1
    /\ LET e == loop'[t].script[Len(loop'[t].script)] IN
          e.role = "executor" /\ ~JsonLoads(e.out[1]).ok

\* The number of Executor outputs of t that failed to decode.
NumMalformed(l) ==
    Cardinality({ i \in 1..Len(l.script) :
                    /\ l.script[i].role = "executor"
                    /\ ~JsonLoads(l.script[i].out[1]).ok })

\* C13 (as stated): an undecodable Executor output does not advance the
\* step counter; the loop goes back to planning with the same step.
C13_MalformedKeepsStep ==
    [][ \A t \in TaskIds :
          MalformedStep(t) =>
              /\ loop'[t].step = loop[t].step
              /\ loop'[t].pc = "planning" ]_vars

\* C13 (amended): an undecodable Executor output ends the iteration of
\* range(max_step) it occurs in: the step counter advances by one, no
\* event is pushed and no reply awaited for it, and the loop plans again if
\* an iteration remains and finalizes as exhausted otherwise; so at most
\* max_step outputs of a task fail to decode.
C13_MalformedConsumesStep ==
    [][ \A t \in TaskIds :
          MalformedStep(t) =>
              /\ loop'[t].step = loop[t].step + 1
              /\ loop'[t].waits = loop[t].waits
              /\ info_pool'[t] = info_pool[t]
              /\ IF loop'[t].step < loop[t].max_step
                 THEN /\ loop'[t].pc = "planning"
                      /\ event_queue'[t] = event_queue[t]
                      /\ vlm_calls'[t] = Append(vlm_calls[t],
                             Call("manager", <<loop[t].current_screenshot>>))
                 ELSE /\ loop'[t].pc = "returned"
                      /\ loop'[t].exit = "exhausted"
                      /\ vlm_calls'[t] = vlm_calls[t]
              /\ NumMalformed(loop'[t]) <= loop[t].max_step ]_vars

\* A loop plans its second step after an undecodable output in its first.
C13_Witness ==
    \E t \in TaskIds :
        /\ loop[t].pc = "planning"
        /\ loop[t].step = 1
        /\ NumMalformed(loop[t]) = 1
        /\ Len(loop[t].script) = 2

\* The doubles of t never ended the loop early: no plan handed to it was
\* finished, no Executor output decoded to an answer, and every wait for a
\* reply returned an action_reply.
NeverEndsEarly(t) ==
    /\ \A i \in 1..Len(loop[t].script) :
          LET e == loop[t].script[i] IN
          /\ e.role = "manager" => ~PlanFinished(e.out)
          /\ e.role = "executor" => ~IsAnswer(JsonLoads(e.out[1]).obj)
          /\ e.role = "client" => e.out = <<"action_reply">>

\* The last event pushed for t is task_finalized(success), and it is the
\* only task_finalized.
EndsWithSuccess(t) ==
    /\ Len(event_queue[t]) > 0
    /\ FinalizedWith("success", event_queue[t][Len(event_queue[t])])
    /\ NumFinalized(t) = 1

\* The loop of t has done n full steps: n action requests, n waits, n
\* reflections, n entries of action_history.
FullSteps(t, n) ==
    /\ NumEvents(t, "action_request") = n
    /\ loop[t].waits = n
    /\ NumCalls(t, "reflector") = n
    /\ Len(info_pool[t].action_history) = n

\* C12 (as stated): with no finished plan, no answer action and only valid
\* replies, a loop that has returned has done exactly max_step full steps
\* and finalized with status success.
C12_ExhaustionAfterMaxStepFullSteps ==
    \A t \in TaskIds :
        ( loop[t].pc = "returned" /\ NeverEndsEarly(t) ) =>
            /\ FullSteps(t, loop[t].max_step)
            /\ EndsWithSuccess(t)

\* C12 (amended): with no finished plan, no answer action and only valid
\* replies, a loop that has returned left its for loop by exhaustion after
\* max_step iterations, of which the k whose Executor output failed to
\* decode made no request: it has done exactly max_step - k full steps, and
\* finalized with status success.
C12_ExhaustionAfterDecodedSteps ==
    \A t \in TaskIds :
        ( loop[t].pc = "returned" /\ NeverEndsEarly(t) ) =>
            /\ loop[t].exit = "exhausted"
            /\ loop[t].step = loop[t].max_step
            /\ NumCalls(t, "manager") = loop[t].max_step
            /\ NumCalls(t, "executor") = loop[t].max_step
            /\ FullSteps(t, loop[t].max_step - NumMalformed(loop[t]))
            /\ EndsWithSuccess(t)

\* A loop has returned after max_step full steps, and another after one step
\* less because one output of its Executor failed to decode.
C12_Witness ==
    \E t1, t2 \in TaskIds :
        /\ loop[t1].pc = "returned" /\ NeverEndsEarly(t1)
        /\ FullSteps(t1, loop[t1].max_step)
        /\ loop[t2].pc = "returned" /\ NeverEndsEarly(t2)
        /\ NumMalformed(loop[t2]) = 1
        /\ FullSteps(t2, loop[t2].max_step - 1)

\* The Executor of t has been asked twice: its first output failed to
\* decode, its second decoded to an answer action.
MalformedThenAnswer(t) ==
    LET out == ScriptOf(t, "executor") IN
    /\ Len(out) = 2
    /\ ~JsonLoads(out[1][1]).ok
    /\ JsonLoads(out[2][1]).ok
    /\ IsAnswer(JsonLoads(out[2][1]).obj)

\* C14: when the Executor returns undecodable action text once and an answer
\* action on the retry (max_step at least 2), the task pushes no
\* action_request, never waits for a reply, and ends with
\* task_finalized(success).
C14_MalformedThenAnswerSucceeds ==
    \A t \in TaskIds :
        ( MalformedThenAnswer(t) /\ loop[t].max_step >= 2 ) =>
            /\ loop[t].pc = "returned"
            /\ loop[t].exit = "answer"
            /\ loop[t].step = 1
            /\ NumEvents(t, "action_request") = 0
            /\ loop[t].waits = 0
            /\ futures[t] = << >>
            /\ NumEvents(t, "final_answer") = 1
            /\ EndsWithSuccess(t)

\* A loop has returned on the answer that followed an undecodable output.
C14_Witness ==
    \E t \in TaskIds :
        /\ MalformedThenAnswer(t)
        /\ loop[t].pc = "returned"
        /\ loop[t].max_step >= 2
        /\ NumCalls(t, "manager") = 2
        /\ NumCalls(t, "executor") = 2

\* The doubles of t played the single-action script: two plans, neither
\* finished; a click, then an answer; one valid reply; Reflector outcome A.
SingleActionScript(t) ==
    LET plans == ScriptOf(t, "manager")
        acts  == ScriptOf(t, "executor")
    IN
    /\ Len(plans) = 2 /\ ~PlanFinished(plans[1]) /\ ~PlanFinished(plans[2])
    /\ Len(acts) = 2
    /\ JsonLoads(acts[1][1]).ok /\ JsonLoads(acts[1][1]).obj.action = "click"
    /\ JsonLoads(acts[2][1]).ok /\ IsAnswer(JsonLoads(acts[2][1]).obj)
    /\ ScriptOf(t, "client") = << <<"action_reply">> >>
    /\ ScriptOf(t, "reflector") = << <<"A">> >>

\* C15: on the single-action happy path with the Notetaker enabled the loop
\* makes exactly 6 predict_mm calls, in the order Manager, Executor,
\* Reflector, Notetaker, Manager, Executor; it makes exactly one action
\* request and one wait; action_history has length 1; exactly one
\* task_finalized is pushed, with status success.
C15_HappyPathSixCalls ==
    \A t \in TaskIds :
        ( SingleActionScript(t) /\ loop[t].if_notetaker ) =>
            /\ CallRoles(t) = << "manager", "executor", "reflector",
                                 "notetaker", "manager", "executor" >>
            /\ NumEvents(t, "action_request") = 1
            /\ loop[t].waits = 1
            /\ Len(info_pool[t].action_history) = 1
            /\ loop[t].pc = "returned"
            /\ EndsWithSuccess(t)

\* A loop run with the Notetaker enabled has returned after the
\* single-action script, its note taken.
C15_Witness ==
    \E t \in TaskIds :
        /\ SingleActionScript(t)
        /\ loop[t].if_notetaker
        /\ loop[t].pc = "returned"
        /\ info_pool[t].important_notes = "notes"
        /\ Len(vlm_calls[t]) = 6

\* The loop of t has run: execute_task or execute_task_a2a_mode was entered.
Started(t) == loop[t].pc \notin {"none", "created"}

\* C16: with distinct task ids and a set of doubles per task, what a task
\* does depends on what its own doubles hand it and never on the other
\* tasks or the interleaving: two tasks run with the same parameters that
\* were handed the same script are at the same place with the same step
\* count, number of requests, events, histories and outcome (one of them may
\* have run alone, before the other started); and every task handed the
\* single-action script has returned with one request, action_history of
\* length 1 and task_finalized(success), whatever the other tasks did.
C16_OutcomeDependsOnOwnScript ==
    /\ \A t1, t2 \in TaskIds :
          ( /\ Started(t1) /\ Started(t2)
            /\ loop[t1].script = loop[t2].script
            /\ loop[t1].if_notetaker = loop[t2].if_notetaker
            /\ loop[t1].max_step = loop[t2].max_step )
          => /\ loop[t1].pc = loop[t2].pc
             /\ loop[t1].step = loop[t2].step
             /\ loop[t1].waits = loop[t2].waits
             /\ loop[t1].exit = loop[t2].exit
             /\ loop[t1].exc = loop[t2].exc
             /\ event_queue[t1] = event_queue[t2]
             /\ info_pool[t1] = info_pool[t2]
    /\ \A t \in TaskIds :
          SingleActionScript(t) =>
             /\ loop[t].pc = "returned"
             /\ loop[t].step = 1
             /\ FullSteps(t, 1)
             /\ Len(info_pool[t].action_outcomes) = 1
             /\ EndsWithSuccess(t)

\* Two tasks have both returned after the single-action script, while two
\* futures were made, one per task.
C16_Witness ==
    \A t \in TaskIds :
        /\ SingleActionScript(t)
        /\ loop[t].pc = "returned"
        /\ IsReal(t)
        /\ Len(futures[t]) = 1

\* Nothing kept for task id u changes in the step: its keys in the two
\* reply registries, its futures, its event queue, its key in
\* ACTIVE_TASK_CONTEXTS, its coroutine.
FrameOf(u) ==
    /\ ACTION_REPLY_FUTURES'[u] = ACTION_REPLY_FUTURES[u]
    /\ SERVER_ACTION_REPLY_FUTURES'[u] = SERVER_ACTION_REPLY_FUTURES[u]
    /\ futures'[u] = futures[u]
    /\ event_queue'[u] = event_queue[u]
    /\ (u \in ACTIVE_TASK_CONTEXTS') = (u \in ACTIVE_TASK_CONTEXTS)
    /\ loop'[u] = loop[u]

\* C17: every operation done for one task id (creating its future, popping
\* its key after a reply, a timeout or a cancellation, the reply handler
\* called for it, registering and removing its event queue) leaves what the
\* registries hold for every other task id unchanged: each step changes the
\* entries of at most one task id.
C17_OnlyOwnEntriesChange ==
    [][ \E t \in TaskIds : \A u \in TaskIds \ {t} : FrameOf(u) ]_vars

\* The wait of one server task has timed out and the reply handler has been
\* called for it, while another task still waits on its registered future.
C17_Witness ==
    \E t1, t2 \in TaskIds :
        /\ loop[t1].mode = "server"
        /\ loop[t1].exc = "TimeoutError"
        /\ ACTION_REPLY_FUTURES[t1] = 0
        /\ http.task = t1
        /\ loop[t2].pc = "awaiting"
        /\ SlotReady(t2)
        /\ t2 \in ACTIVE_TASK_CONTEXTS

\* C18: when tasks/cancel is received for a task that is blocked waiting
\* for a reply, the wait is unblocked, the task's key is removed from the
\* reply registry and from ACTIVE_TASK_CONTEXTS, and nothing of another
\* task changes.
C18_CancelRequestUnblocksWait ==
    [][ \A t \in TaskIds :
          ( /\ http' # http
            /\ http'.task = t
            /\ http'.status = "canceled"
            /\ loop[t].pc = "awaiting" )
          => /\ loop'[t].pc # "awaiting"
             /\ ACTION_REPLY_FUTURES'[t] = 0
             /\ t \notin ACTIVE_TASK_CONTEXTS'
             /\ \A u \in TaskIds \ {t} : FrameOf(u) ]_vars

\* receive_action_reply is called for t while the registry of
\* run_a2a_server.py holds a future for t: the call pops the key.
HandlerFinds(t) ==
    /\ SERVER_ACTION_REPLY_FUTURES[t] # 0
    /\ SERVER_ACTION_REPLY_FUTURES'[t] = 0

\* C19: when the reply handler is called for a task whose registered future
\* is already done, it answers with a warning, not an error, and no future
\* changes: the result delivered before stays what it was.
C19_ResolvedSlotIsWarningNoOp ==
    [][ \A t \in TaskIds :
          ( /\ HandlerFinds(t)
            /\ Done(futures[t][SERVER_ACTION_REPLY_FUTURES[t]]) )
          => /\ http'.task = t
             /\ http'.status = "warning"
             /\ futures' = futures ]_vars

\* The handler has answered with a warning for a future that holds the
\* result delivered before the call.
C19_Witness ==
    \E t \in TaskIds :
        /\ http.task = t
        /\ http.status = "warning"
        /\ SERVER_ACTION_REPLY_FUTURES[t] = 0
        /\ Len(futures[t]) >= 1
        /\ futures[t][1].state = "done"
        /\ futures[t][1].result.screenshot_b64 = 1

HandlerCalled(t) ==
    /\ http'.task = t
    /\ http'.status \in {"404", "ok", "warning"}

\* C21: when the reply handler is called for a task id that has no key in
\* its registry, it answers 404 (not found), makes no future, resolves no
\* future and leaves both registries as they were.
C21_NoSlotIsNotFound ==
    [][ \A t \in TaskIds :
          ( HandlerCalled(t) /\ SERVER_ACTION_REPLY_FUTURES[t] = 0 )
          => /\ http'.status = "404"
             /\ futures' = futures
             /\ SERVER_ACTION_REPLY_FUTURES' = SERVER_ACTION_REPLY_FUTURES
             /\ ACTION_REPLY_FUTURES' = ACTION_REPLY_FUTURES ]_vars

\* The handler has answered 404 for a task without a key while the other
\* task's key still holds its pending future.
C21_Witness ==
    \E t1, t2 \in TaskIds :
        /\ http.task = t1
        /\ http.status = "404"
        /\ SERVER_ACTION_REPLY_FUTURES[t1] = 0
        /\ SERVER_ACTION_REPLY_FUTURES[t2] # 0
        /\ futures[t2][SERVER_ACTION_REPLY_FUTURES[t2]].state = "pending"

\* Nothing is left to run for t: its coroutine is over and the reader of
\* its event queue has taken every event pushed.
Quiescent(t) ==
    /\ loop[t].pc \in Terminal
    /\ consumed[t] = Len(event_queue[t])

\* C22: every task, whatever its outcome, ends with no key left in a
\* registry: once its coroutine is over and its events are all taken, the
\* task has no key in either reply registry nor in ACTIVE_TASK_CONTEXTS.
C22_NoRegistryEntryLeft ==
    \A t \in TaskIds :
        Quiescent(t) =>
            /\ ACTION_REPLY_FUTURES[t] = 0
            /\ SERVER_ACTION_REPLY_FUTURES[t] = 0
            /\ t \notin ACTIVE_TASK_CONTEXTS

\* C23: the events pushed for a task are ordered by emission (event_queue
\* is a FIFO queue), no event of another type is pushed after a
\* task_finalized, and when the task's coroutine has ended by itself the
\* last event pushed for it is a task_finalized.
C23_TerminalEventIsLast ==
    \A t \in TaskIds :
        LET q == event_queue[t] IN
        /\ \A i, j \in 1..Len(q) :
              ( i < j /\ Finalized(q[i]) ) => Finalized(q[j])
        /\ loop[t].pc \in {"returned", "raised"} =>
              /\ Len(q) > 0
              /\ Finalized(q[Len(q)])

\* The last err_to_manager_thresh outcomes of the pool are all failures.
RecentFailures(pool) ==
    LET k == pool.err_to_manager_thresh
        n == Len(pool.action_outcomes)
    IN /\ n >= k
       /\ \A i \in (n - k + 1)..n : pool.action_outcomes[i] # "A"

\* C24: when the outcomes of a task end with a run of err_to_manager_thresh
\* (2) results other than A, the prompt of the next Manager call is built
\* with error_flag_plan set: it carries the log of the recent failures.
\* (While the loop is suspended in the Manager's predict_mm, info_pool is
\* what get_prompt has just read.)
C24_RepeatedFailureReachesManager ==
    \A t \in TaskIds :
        ( loop[t].pc = "planning" /\ RecentFailures(info_pool[t]) ) =>
            ManagerPromptHasFailureLog(info_pool[t])

\* The action requests in the queue q.
Requests(q) ==
    Cardinality({ i \in 1..Len(q) : q[i].type = "action_request" })

\* The outputs the double playing `role` has handed to the loop l.
Handed(l, role) ==
    Cardinality({ i \in 1..Len(l.script) : l.script[i].role = role })

\* C25: within one task the steps run one after the other.  A step that
\* pushes an action_request pushes one, from the Executor's return, and goes
\* on to wait for its reply; before it, every earlier request of the task
\* has had its wait ended by an action_reply and its Reflector call
\* answered, and every Notetaker call made has been answered.  So after
\* every step at most one request of the task is without an ended wait.
C25_StepsAreSequential ==
    [][ \A t \in TaskIds :
          LET n == Requests(event_queue[t]) IN
          /\ Requests(event_queue'[t]) # n =>
                /\ Requests(event_queue'[t]) = n + 1
                /\ loop[t].pc = "acting"
                /\ loop'[t].pc = "awaiting"
                /\ loop[t].waits = n
                /\ ScriptOf(t, "client") = [i \in 1..n |-> <<"action_reply">>]
                /\ Handed(loop[t], "reflector") = n
                /\ NumCalls(t, "reflector") = n
                /\ Len(info_pool[t].action_history) = n
                /\ Handed(loop[t], "notetaker") = NumCalls(t, "notetaker")
          /\ Requests(event_queue'[t]) - Handed(loop'[t], "client") <= 1 ]_vars

\* A task waits for the reply to its second request, its first step done
\* with its note taken.
C25_Witness ==
    \E t \in TaskIds :
        /\ loop[t].pc = "awaiting"
        /\ Requests(event_queue[t]) = 2
        /\ loop[t].waits = 2
        /\ NumCalls(t, "reflector") = 1
        /\ NumCalls(t, "notetaker") = 1
        /\ info_pool[t].important_notes = "notes"

\* The generator of t's stream takes the next event of its queue in the
\* step, and that event is a task_finalized.
TakesFinalized(t) ==
    /\ stream[t].state = "running"
    /\ consumed'[t] = consumed[t] + 1
    /\ Finalized(event_queue[t][consumed[t] + 1])

\* C26: event_generator stops at the first task_finalized it takes from the
\* queue: it yields it as a final status update with the event's status,
\* is closed, leaves the task's coroutine ended and removes the task's key
\* from ACTIVE_TASK_CONTEXTS; every event it took before was not a
\* task_finalized, and once closed it takes and yields nothing more.
C26_StreamStopsAtFirstFinalized ==
    [][ \A t \in TaskIds :
          /\ TakesFinalized(t) =>
                /\ stream'[t].state = "closed"
                /\ stream'[t].yielded =
                      Append(stream[t].yielded,
                             create_a2a_status_update(
                                 event_queue[t][consumed[t] + 1].status, TRUE))
                /\ \A i \in 1..consumed[t] : ~Finalized(event_queue[t][i])
                /\ \A i \in 1..Len(stream[t].yielded) : ~stream[t].yielded[i].final
                /\ loop'[t].pc \in Terminal
                /\ t \in ACTIVE_TASK_CONTEXTS
                /\ t \notin ACTIVE_TASK_CONTEXTS'
          /\ stream[t].state = "closed" =>
                /\ stream'[t] = stream[t]
                /\ consumed'[t] = consumed[t]
                /\ t \notin ACTIVE_TASK_CONTEXTS' ]_vars

\* The stream of a task was closed by the task_finalized(success) pushed
\* after an answer, and the reply handler has answered 404 for the task;
\* the other task's stream is still open.
C26_Witness ==
    \E t1, t2 \in TaskIds :
        /\ stream[t1].state = "closed"
        /\ loop[t1].exit = "answer"
        /\ consumed[t1] = Len(event_queue[t1])
        /\ stream[t1].yielded[Len(stream[t1].yielded)] =
              create_a2a_status_update("success", TRUE)
        /\ t1 \notin ACTIVE_TASK_CONTEXTS
        /\ http.task = t1
        /\ http.status = "404"
        /\ stream[t2].state = "running"
        /\ t2 \in ACTIVE_TASK_CONTEXTS

\* The predict_mm calls for `role` in the sequence calls.
CallsFor(calls, role) ==
    Cardinality({ i \in 1..Len(calls) : calls[i].role = role })

\* The important_notes events in the queue q.
NoteEvents(q) ==
    Cardinality({ i \in 1..Len(q) : q[i].type = "important_notes" })

\* The Reflector's, and the Notetaker's, predict_mm of t returns in the step.
ReflectorAnswers(t) ==
    /\ loop[t].pc = "reflecting"
    /\ Handed(loop'[t], "reflector") = Handed(loop[t], "reflector") + 1

NotetakerAnswers(t) ==
    /\ loop[t].pc = "noting"
    /\ Handed(loop'[t], "notetaker") = Handed(loop[t], "notetaker") + 1

\* C27: the Notetaker is called in a step if and only if the step's
\* Reflector outcome is A and if_notetaker is set; an important_notes event
\* is pushed exactly when a Notetaker call returns; and
\* info_pool.important_notes is changed by no other step.
C27_NotetakerOnlyOnEnabledSuccess ==
    [][ \A t \in TaskIds :
          LET called == CallsFor(vlm_calls'[t], "notetaker")
                            # CallsFor(vlm_calls[t], "notetaker")
              pushed == NoteEvents(event_queue'[t]) # NoteEvents(event_queue[t])
          IN
          /\ called => ReflectorAnswers(t)
          /\ ReflectorAnswers(t) =>
                ( called <=>
                    /\ loop'[t].script[Len(loop'[t].script)].out = <<"A">>
                    /\ loop[t].if_notetaker )
          /\ pushed <=> NotetakerAnswers(t)
          /\ pushed => NoteEvents(event_queue'[t]) = NoteEvents(event_queue[t]) + 1
          /\ ~NotetakerAnswers(t) =>
                info_pool'[t].important_notes = info_pool[t].important_notes ]_vars

\* A task run with the Notetaker enabled took no note in its failed first
\* step and one in its successful second step; a task run without it got
\* outcome A and went on to plan its next step, no note taken.
C27_Witness ==
    \E t1, t2 \in TaskIds :
        /\ loop[t1].if_notetaker
        /\ ScriptOf(t1, "reflector") = << <<"B">>, <<"A">> >>
        /\ NumCalls(t1, "notetaker") = 1
        /\ NumEvents(t1, "important_notes") = 1
        /\ info_pool[t1].important_notes = "notes"
        /\ ~loop[t2].if_notetaker
        /\ ScriptOf(t2, "reflector") = << <<"A">> >>
        /\ loop[t2].pc = "planning"
        /\ NumCalls(t2, "notetaker") = 0
        /\ info_pool[t2].important_notes = None

\* The images of the last predict_mm call for `role` in calls.
LastImages(calls, role) ==
    LET I == { i \in 1..Len(calls) : calls[i].role = role }
    IN calls[CHOOSE i \in I : \A j \in I : j <= i].images

\* A predict_mm call for `role` is made for t in the step.
Calls(t, role) ==
    /\ Len(vlm_calls'[t]) = Len(vlm_calls[t]) + 1
    /\ vlm_calls'[t][Len(vlm_calls'[t])].role = role

\* C28: the image of a step.  The Manager's call of the step after one in
\* which a valid reply was received gets the image of that reply (the k-th
\* reply of a task carries image k + 1); the Manager's call of the step
\* after one that ended on an undecodable Executor output gets the image
\* the Manager and the Executor had in that step; and the Executor's call of
\* a step gets the image its Manager's call got.
C28_NextImageIsReplyImage ==
    [][ \A t \in TaskIds :
          LET now == vlm_calls'[t][Len(vlm_calls'[t])].images IN
          /\ ( Calls(t, "manager") /\ loop[t].pc \in {"reflecting", "noting"} )
                => /\ now = << loop[t].waits + 1 >>
                   /\ now = << LastImages(vlm_calls[t], "reflector")[2] >>
          /\ ( Calls(t, "manager") /\ loop[t].pc = "acting" )
                => /\ now = LastImages(vlm_calls[t], "manager")
                   /\ now = LastImages(vlm_calls[t], "executor")
          /\ Calls(t, "executor")
                => /\ loop[t].pc = "planning"
                   /\ now = LastImages(vlm_calls[t], "manager") ]_vars

\* A task plans its third step on the image of its only reply: its first
\* step got a valid reply, its second ended on an undecodable output.
C28_Witness ==
    \E t \in TaskIds :
        /\ loop[t].pc = "planning"
        /\ loop[t].step = 2
        /\ loop[t].waits = 1
        /\ NumMalformed(loop[t]) = 1
        /\ ~JsonLoads(ScriptOf(t, "executor")[2][1]).ok
        /\ NumCalls(t, "manager") = 3
        /\ vlm_calls[t][Len(vlm_calls[t])].images = << InitialScreenshot + 1 >>
        /\ vlm_calls[t][1].images = << InitialScreenshot >>

\* The step is a call of get_reply_future for t.
FutureRequested(t) ==
    /\ http'.task = t
    /\ http'.fut # 0

\* C29: get_reply_future(task_id) returns the future registered for
\* task_id when there is one and it is not done, and changes nothing then;
\* otherwise (no key, or the registered future done or cancelled) it makes
\* a new pending future, registers it under task_id and returns it, the
\* other task's key and futures untouched.  After the call the future
\* registered for task_id is the one returned, and it is pending.
C29_GetOrCreateReturnsUnresolved ==
    [][ \A t \in TaskIds :
          FutureRequested(t) =>
             LET f == SERVER_ACTION_REPLY_FUTURES[t] IN
             /\ IF f # 0 /\ futures[t][f].state = "pending"
                THEN /\ http'.fut = f
                     /\ SERVER_ACTION_REPLY_FUTURES' = SERVER_ACTION_REPLY_FUTURES
                     /\ futures' = futures
                ELSE /\ http'.fut = Len(futures[t]) + 1
                     /\ futures' = [futures EXCEPT ![t] = Append(@, NewFuture)]
                     /\ SERVER_ACTION_REPLY_FUTURES' =
                           [SERVER_ACTION_REPLY_FUTURES EXCEPT ![t] = http'.fut]
             /\ SERVER_ACTION_REPLY_FUTURES'[t] = http'.fut
             /\ futures'[t][http'.fut].state = "pending" ]_vars

\* get_reply_future has made and returned a second future for a task whose
\* first future holds a result, while the other task keeps its own pending
\* future registered.
C29_Witness ==
    \E t1, t2 \in TaskIds :
        /\ http.task = t1
        /\ http.fut = 2
        /\ SERVER_ACTION_REPLY_FUTURES[t1] = 2
        /\ futures[t1][1].state = "done"
        /\ futures[t1][2] = NewFuture
        /\ SERVER_ACTION_REPLY_FUTURES[t2] = 1
        /\ futures[t2] = << NewFuture >>

\* The Executor's output handed to t in the step cannot be used as an
\* action object: it is not JSON, or it is JSON but not an object.
UnusableOutput(t) ==
    /\ loop[t].pc = "acting"
    /\ Len(loop'[t].script) = Len(loop[t].script) + 1
    /\ LET e == loop'[t].script[Len(loop'[t].script)] IN
          /\ e.role = "executor"
          /\ ~JsonLoads(e.out[1]).ok \/ ~JsonLoads(e.out[1]).isdict

\* C30: every Executor output that cannot be used as an action object is
\* absorbed in the loop: the rest of the step is skipped (no request, no
\* wait, no history entry), the loop goes on to its next iteration or ends
\* by exhaustion, and no exception leaves the loop.
C30_UnusableOutputIsAbsorbed ==
    [][ \A t \in TaskIds :
          UnusableOutput(t) =>
              /\ loop'[t].pc \in {"planning", "returned"}
              /\ loop'[t].exc = None
              /\ loop'[t].waits = loop[t].waits
              /\ Requests(event_queue'[t]) = Requests(event_queue[t])
              /\ info_pool'[t] = info_pool[t] ]_vars

\* C31: a step that ends on an undecodable Executor output has made the
\* Manager's and the Executor's call and nothing else: it pushes no
\* action_request, waits for no reply, calls neither Reflector nor
\* Notetaker and leaves action_history, action_outcomes and important_notes
\* as they were; the next predict_mm call of the task, if there is one, is
\* the Manager's.
C31_MalformedStepChangesNothing ==
    [][ \A t \in TaskIds :
          MalformedStep(t) =>
              LET n == Len(vlm_calls[t]) IN
              /\ vlm_calls[t][n].role = "executor"
              /\ vlm_calls[t][n - 1].role = "manager"
              /\ event_queue[t][Len(event_queue[t])].type = "manager_plan"
              /\ Requests(event_queue'[t]) = Requests(event_queue[t])
              /\ loop'[t].waits = loop[t].waits
              /\ loop'[t].pc # "awaiting"
              /\ ACTION_REPLY_FUTURES' = ACTION_REPLY_FUTURES
              /\ futures' = futures
              /\ CallsFor(vlm_calls'[t], "reflector") = CallsFor(vlm_calls[t], "reflector")
              /\ CallsFor(vlm_calls'[t], "notetaker") = CallsFor(vlm_calls[t], "notetaker")
              /\ info_pool'[t].action_history = info_pool[t].action_history
              /\ info_pool'[t].action_outcomes = info_pool[t].action_outcomes
              /\ info_pool'[t].important_notes = info_pool[t].important_notes
              /\ \/ vlm_calls'[t] = vlm_calls[t]
                 \/ /\ Len(vlm_calls'[t]) = n + 1
                    /\ SubSeq(vlm_calls'[t], 1, n) = vlm_calls[t]
                    /\ vlm_calls'[t][n + 1].role = "manager" ]_vars

\* The second step of a task has just ended on an undecodable output; its
\* first step was a full one, with its note taken.
C31_Witness ==
    \E t \in TaskIds :
        /\ Len(loop[t].script) > 0
        /\ LET e == loop[t].script[Len(loop[t].script)] IN
              e.role = "executor" /\ ~JsonLoads(e.out[1]).ok
        /\ loop[t].step = 2
        /\ Len(info_pool[t].action_history) = 1
        /\ info_pool[t].important_notes = "notes"
        /\ NumCalls(t, "reflector") = 1
        /\ NumEvents(t, "action_request") = 1

\* The Executor output decodes to an action object that is not an answer.
IsRequestOutput(out) ==
    /\ JsonLoads(out[1]).ok
    /\ JsonLoads(out[1]).isdict
    /\ ~IsAnswer(JsonLoads(out[1]).obj)

\* The types of the events of the queue q, in order.
EventTypes(q) == [i \in 1..Len(q) |-> q[i].type]

\* C32: the events of a step come in the order manager_plan,
\* action_request, action_reflection, important_notes: an action_request
\* directly follows the step's manager_plan, an action_reflection directly
\* follows the step's action_request and an important_notes directly
\* follows the step's action_reflection.  The k-th action_request of a task
\* carries the action text and the thought of the k-th Executor reply that
\* decoded to an action other than answer, with wait_for_reply true.  An
\* action_reflection is pushed for every Reflector reply, and the Reflector
\* is only asked right after wait_for_client_reply returned an
\* action_reply.
C32_StepEventsInOrder ==
    \A t \in TaskIds :
        LET q    == event_queue[t]
            IsRequest(e) == e.type = "action_request"
            reqs == SelectSeq(q, IsRequest)
            acts == SelectSeq(ScriptOf(t, "executor"), IsRequestOutput)
            sc   == loop[t].script
        IN
        /\ \A i \in 1..Len(q) :
              /\ q[i].type = "action_request" =>
                    i > 1 /\ q[i - 1].type = "manager_plan"
              /\ q[i].type = "action_reflection" =>
                    i > 1 /\ q[i - 1].type = "action_request"
              /\ q[i].type = "important_notes" =>
                    i > 1 /\ q[i - 1].type = "action_reflection"
              /\ q[i].type = "manager_plan" =>
                    i = 1 \/ q[i - 1].type \in {"manager_plan", "action_reflection",
                                                "important_notes"}
        /\ Len(reqs) = Len(acts)
        /\ \A k \in 1..Len(reqs) :
              /\ reqs[k].text = parse_response(acts[k][1]).action
              /\ reqs[k].thought = parse_response(acts[k][1]).thought
              /\ reqs[k].wait_for_reply = TRUE
        /\ NumEvents(t, "action_reflection") = Handed(loop[t], "reflector")
        /\ \A i \in 1..Len(sc) :
              sc[i].role = "reflector" =>
                  /\ i > 1
                  /\ sc[i - 1] = [role |-> "client", out |-> <<"action_reply">>]

\* A task has pushed the events of a step with a note, then those of a step
\* without one.
C32_Witness ==
    \E t \in TaskIds :
        /\ Len(event_queue[t]) >= 7
        /\ SubSeq(EventTypes(event_queue[t]), 1, 7) =
              << "manager_plan", "action_request", "action_reflection",
                 "important_notes", "manager_plan", "action_request",
                 "action_reflection" >>
        /\ event_queue[t][2].wait_for_reply = TRUE
        /\ event_queue[t][2].thought = <<"thought", "click">>

\* The awaits of one iteration, in the order the loop reaches them.
Stage(pc) ==
    CASE pc = "planning"   -> 0
      [] pc = "acting"     -> 1
      [] pc = "awaiting"   -> 2
      [] pc = "reflecting" -> 3
      [] pc = "noting"     -> 4

InLoop == {"planning", "acting", "awaiting", "reflecting", "noting"}

\* What the loop l has left to do at most: the awaits of its remaining
\* iterations; nothing once it is over.
Remaining(l) ==
    IF l.pc \in InLoop
    THEN 5 * (l.max_step - l.step) - Stage(l.pc)
    ELSE 0

\* C33: the loop terminates.  Every await of the loop that returns or
\* raises leaves it strictly less to do, of a bounded amount, and a loop
\* that is over does nothing more; with max_step N it runs at most N
\* iterations, makes at most N Manager calls, at most N action requests and
\* at most 4N predict_mm calls.
C33_LoopTerminatesWithinBounds ==
    [][ \A t \in TaskIds :
          /\ ( loop[t].pc \in InLoop /\ loop'[t] # loop[t] ) =>
                /\ Remaining(loop'[t]) < Remaining(loop[t])
                /\ Remaining(loop'[t]) >= 0
          /\ loop[t].pc \in Terminal => loop'[t] = loop[t]
          /\ loop'[t].step <= loop'[t].max_step
          /\ loop'[t].pc \in InLoop => loop'[t].step < loop'[t].max_step
          /\ CallsFor(vlm_calls'[t], "manager") <= loop'[t].max_step
          /\ Requests(event_queue'[t]) <= loop'[t].max_step
          /\ Len(vlm_calls'[t]) <= 4 * loop'[t].max_step ]_vars

\* A loop has ended by exhaustion after max_step full steps with a note
\* each: 4 * max_step predict_mm calls.
C33_Witness ==
    \E t \in TaskIds :
        /\ loop[t].pc = "returned"
        /\ loop[t].exit = "exhausted"
        /\ loop[t].max_step >= 2
        /\ Len(vlm_calls[t]) = 4 * loop[t].max_step
        /\ NumEvents(t, "action_request") = loop[t].max_step
        /\ NumCalls(t, "manager") = loop[t].max_step

\* C34: when the loop of a stream task has ended with an exception and no
\* task_finalized was pushed, event_generator still stops: once it has
\* taken every event pushed (nothing more will be put in its queue), it
\* has yielded a final status update, is closed and the task's key is gone
\* from ACTIVE_TASK_CONTEXTS.
C34_StreamEndsAfterException ==
    \A t \in TaskIds :
        ( /\ loop[t].mode = "server"
          /\ loop[t].pc = "raised"
          /\ NumFinalized(t) = 0
          /\ consumed[t] = Len(event_queue[t]) )
        => /\ stream[t].state = "closed"
           /\ \E i \in 1..Len(stream[t].yielded) : stream[t].yielded[i].final
           /\ t \notin ACTIVE_TASK_CONTEXTS

\* ------------------------------------- event_generator over finished loops
\* event_generator reading the queue of a loop that is over, for each way
\* _execute_task_logic ends with an A2AInterfaceReal.  (Under Spec the
\* server's loop never gets a reply, see C4_ReplyResolvesWaitingLoop: its
\* queue never holds what the loop pushes after an invalid reply.)

\* An event as the loop of a stream task pushes it: the push of an
\* action_request comes before the reply future is made.
Pushed(type, status, text) == create_a2a_event(type, status, text, FALSE)

PushedRequest ==
    create_action_request_event(parse_response("click").action,
                                parse_response("click").thought, FALSE)

\* How the loop ended, what it pushed and the futures it made.
EndedLoops ==
    { [exit |-> "plan", pc |-> "returned", exc |-> None, waits |-> 0,
       futs |-> << >>,
       q |-> << Pushed("manager_plan", None, <<"task", "Finished">>),
                Pushed("task_finalized", "success", None) >>],
      [exit |-> "answer", pc |-> "returned", exc |-> None, waits |-> 0,
       futs |-> << >>,
       q |-> << Pushed("manager_plan", None, <<"tap", "icon">>),
                Pushed("final_answer", "success", "opened"),
                Pushed("task_finalized", "success", None) >>],
      [exit |-> "invalid_reply", pc |-> "returned", exc |-> None, waits |-> 1,
       futs |-> << [state |-> "done",
                    result |-> [type |-> "error", screenshot_b64 |-> 2]] >>,
       q |-> << Pushed("manager_plan", None, <<"tap", "icon">>),
                PushedRequest,
                Pushed("task_finalized", "failed", None),
                Pushed("task_finalized", "success", None) >>],
      [exit |-> None, pc |-> "raised", exc |-> "TimeoutError", waits |-> 1,
       futs |-> << [state |-> "cancelled", result |-> None] >>,
       q |-> << Pushed("manager_plan", None, <<"tap", "icon">>),
                PushedRequest >>] }

StreamInit ==
    /\ process = "server"
    /\ TASK_COUNTER = TASK_COUNTER_INIT + Cardinality(TaskIds)
    /\ ACTIVE_TASK_CONTEXTS = TaskIds
    /\ ACTION_REPLY_FUTURES = [t \in TaskIds |-> 0]
    /\ SERVER_ACTION_REPLY_FUTURES = [t \in TaskIds |-> 0]
    /\ \E ended \in [TaskIds -> EndedLoops] :
          /\ loop = [t \in TaskIds |->
                [NoLoop EXCEPT !.pc = ended[t].pc, !.mode = "server",
                               !.max_step = MaxStep,
                               !.exit = ended[t].exit, !.exc = ended[t].exc,
                               !.waits = ended[t].waits,
                               !.reply_future = Len(ended[t].futs),
                               !.current_screenshot = InitialScreenshot]]
          /\ futures = [t \in TaskIds |-> ended[t].futs]
          /\ event_queue = [t \in TaskIds |-> ended[t].q]
    /\ info_pool = [t \in TaskIds |-> NewInfoPool]
    /\ consumed = [t \in TaskIds |-> 0]
    /\ vlm_calls = [t \in TaskIds |-> << >>]
    /\ stream = [t \in TaskIds |->
          [state |-> "running",
           yielded |-> << create_a2a_status_update("running", FALSE) >>]]
    /\ sink = [t \in TaskIds |-> [state |-> "none", reply_counter |-> 0]]
    /\ http = [task |-> 0, status |-> None, late |-> FALSE, fut |-> 0]
    /\ client_stub = [t \in TaskIds |-> NewClientStub]

StreamOnlyNext ==
    \E t \in TaskIds :
        \/ StreamNext(t)
        \/ StreamCancelled(t)

StreamSpec == StreamInit /\ [][StreamOnlyNext]_vars

\* The final status updates the client of t's stream has been sent.
FinalsYielded(t) ==
    { i \in 1..Len(stream[t].yielded) : stream[t].yielded[i].final }

\* C35: the client of a stream is sent at most one final status update;
\* and when the loop ended on an invalid reply (it pushed
\* task_finalized(failed), then task_finalized(success)), the final status
\* update the client is sent has status failed, and the client is sent one
\* once the generator has read that far.
C35_OneFinalStatusFailedOnInvalidReply ==
    \A t \in TaskIds :
        /\ Cardinality(FinalsYielded(t)) <= 1
        /\ loop[t].exit = "invalid_reply" =>
              /\ \A i \in FinalsYielded(t) : stream[t].yielded[i].state = "failed"
              /\ consumed[t] >= 3 => FinalsYielded(t) # {}

\* The stream of a loop that ended on an invalid reply is closed on the
\* failed status, the task_finalized(success) left unread.
C35_Witness ==
    \E t \in TaskIds :
        /\ loop[t].exit = "invalid_reply"
        /\ stream[t].state = "closed"
        /\ stream[t].yielded[Len(stream[t].yielded)] =
              create_a2a_status_update("failed", TRUE)
        /\ consumed[t] = 3
        /\ Len(event_queue[t]) = 4
        /\ FinalizedWith("success", event_queue[t][4])
        /\ t \notin ACTIVE_TASK_CONTEXTS

\* The client of t's stream drops the connection in the step: the stream
\* is closed without a final status update.
StreamDropped(t) ==
    /\ stream[t].state = "running"
    /\ stream'[t].state = "closed"
    /\ stream'[t].yielded = stream[t].yielded

\* C36: when the stream of a task is cancelled while the task's loop waits
\* for a reply, the coroutine is cancelled, the future it waits on is
\* cancelled, the task's key is popped from the loop's reply registry and
\* from ACTIVE_TASK_CONTEXTS, and nothing of another task changes.
C36_StreamCancelEndsWait ==
    [][ \A t \in TaskIds :
          ( StreamDropped(t) /\ loop[t].pc = "awaiting" ) =>
              /\ loop'[t].pc = "cancelled"
              /\ futures'[t][loop[t].reply_future].state = "cancelled"
              /\ ACTION_REPLY_FUTURES[t] # 0
              /\ ACTION_REPLY_FUTURES'[t] = 0
              /\ t \in ACTIVE_TASK_CONTEXTS
              /\ t \notin ACTIVE_TASK_CONTEXTS'
              /\ \A u \in TaskIds \ {t} :
                    /\ FrameOf(u)
                    /\ stream'[u] = stream[u]
                    /\ info_pool'[u] = info_pool[u] ]_vars

\* The stream of a waiting task was cancelled; the other task still waits
\* on its registered future, its stream open.
C36_Witness ==
    \E t1, t2 \in TaskIds :
        /\ loop[t1].pc = "cancelled"
        /\ loop[t1].waits = 1
        /\ futures[t1][loop[t1].reply_future].state = "cancelled"
        /\ ACTION_REPLY_FUTURES[t1] = 0
        /\ stream[t1].state = "closed"
        /\ FinalsYielded(t1) = {}
        /\ t1 \notin ACTIVE_TASK_CONTEXTS
        /\ loop[t2].pc = "awaiting"
        /\ SlotReady(t2)
        /\ stream[t2].state = "running"
        /\ t2 \in ACTIVE_TASK_CONTEXTS

\* C37: the reply handler pops the task's key when it handles a reply: after
\* every call of the handler for a task its registry has no key for the
\* task; a call answers ok only if a pending future was registered, which
\* then holds the reply; and a call that directly follows a handled reply
\* (ok or warning) for the same task, no future registered in between, is
\* answered 404 and changes no future.
C37_SecondReplyIsNotFound ==
    [][ \A t \in TaskIds :
          HandlerCalled(t) =>
              LET f == SERVER_ACTION_REPLY_FUTURES[t] IN
              /\ SERVER_ACTION_REPLY_FUTURES'[t] = 0
              /\ http'.status = "ok" =>
                    /\ f # 0
                    /\ futures[t][f].state = "pending"
                    /\ futures'[t][f].state = "done"
                    /\ futures'[t][f].result.screenshot_b64 = 2
              /\ ( http.task = t /\ http.status \in {"ok", "warning"} ) =>
                    /\ http'.status = "404"
                    /\ futures' = futures ]_vars

\* A second reply for a task has been answered 404; the task's future holds
\* the first reply, which the handler accepted.
C37_Witness ==
    \E t \in TaskIds :
        /\ http.task = t
        /\ http.status = "404"
        /\ SERVER_ACTION_REPLY_FUTURES[t] = 0
        /\ Len(futures[t]) = 1
        /\ futures[t][1].state = "done"
        /\ futures[t][1].result.screenshot_b64 = 2

\* The task ids handed to stream requests so far.
IdsInUse == { u \in TaskIds : stream[u].state # "none" }

\* A stream request is given the id t in the step.
IdAssigned(t) ==
    /\ stream'[t].state = "accepted"
    /\ stream'[t] # stream[t]

\* C38: the ids given to stream requests are pairwise distinct and
\* increase in the order of the requests: a request gets TASK_COUNTER + 1,
\* an id no earlier request got and greater than all of them, under which
\* no registry holds anything; TASK_COUNTER never decreases and the ids
\* in use are exactly those above its initial value up to it; so the keys
\* of ACTIVE_TASK_CONTEXTS belong to one live stream each.
C38_TaskIdsDistinctIncreasing ==
    [][ /\ \A t \in TaskIds :
              IdAssigned(t) =>
                  /\ stream[t].state = "none"
                  /\ t = TASK_COUNTER + 1
                  /\ TASK_COUNTER' = t
                  /\ \A u \in IdsInUse : u < t
                  /\ t \notin ACTIVE_TASK_CONTEXTS
                  /\ ACTION_REPLY_FUTURES[t] = 0
                  /\ SERVER_ACTION_REPLY_FUTURES[t] = 0
                  /\ futures[t] = << >>
                  /\ event_queue[t] = << >>
        /\ TASK_COUNTER' >= TASK_COUNTER
        /\ process = "server" =>
              { u \in TaskIds : stream'[u].state # "none" } =
                  { u \in TaskIds : TASK_COUNTER_INIT < u /\ u <= TASK_COUNTER' }
        /\ ACTIVE_TASK_CONTEXTS' \subseteq
              { u \in TaskIds : stream'[u].state = "running" } ]_vars

\* Two streams were started one after the other and both their loops wait,
\* each on its own future under its own id.
C38_Witness ==
    /\ TASK_COUNTER = TASK_COUNTER_INIT + 2
    /\ ACTIVE_TASK_CONTEXTS = {TASK_COUNTER_INIT + 1, TASK_COUNTER_INIT + 2}
    /\ \A t \in ACTIVE_TASK_CONTEXTS :
          /\ stream[t].state = "running"
          /\ loop[t].pc = "awaiting"
          /\ SlotReady(t)

\* The action_reply replies wait_for_client_reply has returned to the loop l.
ValidReplies(l) ==
    Cardinality({ i \in 1..Len(l.script) :
                    l.script[i] = [role |-> "client", out |-> <<"action_reply">>] })

\* C39: between two steps (at the top of an iteration and after the loop)
\* action_history and action_outcomes both have as many entries as the
\* loop has been handed action_reply replies, at most the number of
\* iterations done; the two sequences only grow, and by exactly one entry,
\* the step's action and outcome, when the step's Reflector call returns.
C39_HistoriesCountValidReplies ==
    [][ \A t \in TaskIds :
          LET h  == info_pool[t].action_history
              h2 == info_pool'[t].action_history
              o  == info_pool[t].action_outcomes
              o2 == info_pool'[t].action_outcomes
          IN
          /\ loop'[t].pc \in {"planning", "returned"} =>
                /\ Len(h2) = ValidReplies(loop'[t])
                /\ Len(o2) = ValidReplies(loop'[t])
                /\ Len(h2) <= loop'[t].step
          /\ IF ReflectorAnswers(t)
             THEN /\ h2 = Append(h, loop[t].action_object)
                  /\ o2 = Append(o, loop'[t].script[Len(loop'[t].script)].out[1])
             ELSE /\ h2 = h
                  /\ o2 = o ]_vars

\* A loop has ended by exhaustion with two entries in each history, one per
\* valid reply, the second step after a failed first one.
C39_Witness ==
    \E t \in TaskIds :
        /\ loop[t].pc = "returned"
        /\ loop[t].exit = "exhausted"
        /\ ValidReplies(loop[t]) = 2
        /\ Len(info_pool[t].action_history) = 2
        /\ info_pool[t].action_outcomes = << "B", "A" >>

\* ------------------------------------------------- the scripted client double
\* Calls of wait_for_client_reply made on one stub.
MaxStubCalls == 16

\* A caller awaits wait_for_client_reply() on task t's stub.
WaitForClientReply(t) ==
    /\ client_stub[t].pc = "idle"
    /\ client_stub[t].calls < MaxStubCalls
    /\ client_stub' = [client_stub EXCEPT ![t] = wait_for_client_reply(@)]
    /\ UNCHANGED << process, TASK_COUNTER, ACTIVE_TASK_CONTEXTS, ACTION_REPLY_FUTURES,
                    SERVER_ACTION_REPLY_FUTURES, futures, loop, info_pool,
                    event_queue, consumed, vlm_calls, stream, sink, http >>

\* asyncio.sleep(0.1) is over and the call returns.
ClientReplyReady(t) ==
    /\ client_stub[t].pc = "sleeping"
    /\ client_stub' = [client_stub EXCEPT ![t] = wait_for_client_reply_resumed(@)]
    /\ UNCHANGED << process, TASK_COUNTER, ACTIVE_TASK_CONTEXTS, ACTION_REPLY_FUTURES,
                    SERVER_ACTION_REPLY_FUTURES, futures, loop, info_pool,
                    event_queue, consumed, vlm_calls, stream, sink, http >>

\* The tests build one A2AClientStub per task.
StubInit == Init /\ process = "double"

StubNext == \E t \in TaskIds : WaitForClientReply(t) \/ ClientReplyReady(t)

StubSpec == StubInit /\ [][StubNext]_vars

\* C40: a call of A2AClientStub.wait_for_client_reply that has suspended can
\* always resume (it waits for a sleep only, never for a client), every call
\* returns a reply of type action_reply, action_counter never exceeds the
\* script's length, a call made with script entries left returns the next
\* entry's screenshot and adds one to action_counter, and a call made with the
\* script used up returns the last entry's screenshot and leaves
\* action_counter as it was; nothing but a returning call changes it.
C40_StubAlwaysReplies ==
    /\ [](\A t \in TaskIds :
            /\ client_stub[t].action_counter <= Len(client_stub[t].mock_script)
            /\ client_stub[t].calls - client_stub[t].returns \in {0, 1}
            /\ client_stub[t].calls > client_stub[t].returns => ENABLED ClientReplyReady(t))
    /\ [][ \A t \in TaskIds :
             LET s  == client_stub[t]
                 s2 == client_stub'[t]
                 n  == Len(s.mock_script)
             IN
             IF s2.returns = s.returns + 1
             THEN /\ s2.reply.type = "action_reply"
                  /\ IF s.action_counter < n
                     THEN /\ s2.action_counter = s.action_counter + 1
                          /\ s2.reply.screenshot_b64 =
                                s.mock_script[s.action_counter + 1].screenshot_b64
                     ELSE /\ s2.action_counter = s.action_counter
                          /\ s2.reply.screenshot_b64 = s.mock_script[n].screenshot_b64
             ELSE /\ s2.returns = s.returns
                  /\ s2.action_counter = s.action_counter
                  /\ s2.reply = s.reply ]_vars

\* A stub has answered more calls than its script has entries: the counter
\* stands at the script's length and the last reply carries the last image.
C40_Witness ==
    \E t \in TaskIds :
        /\ client_stub[t].returns > ScriptLen
        /\ client_stub[t].action_counter = ScriptLen
        /\ client_stub[t].reply = [type |-> "action_reply", screenshot_b64 |-> ScriptLen + 1]

====
